---- MODULE Spec2Model ----
(***************************************************************************)
(* State-machine model of the analytics engine's orchestration core:       *)
(* run_analysis (main.py), the stage graph (graph.py), the shared record   *)
(* (state.py) and the stage functions (agents/*.py).                       *)
(*                                                                         *)
(* Conventions                                                             *)
(*  - Optional values: None is <<>>, a present value x is <<x>>.           *)
(*  - Text is a sequence of symbols (words, punctuation); lower-casing and *)
(*    substring tests work symbol by symbol.                               *)
(*  - Floats in [0,1] are integer percentages (0.5 is 50).                 *)
(*  - A capability response is [raises, lines]; a line is a code fence, a  *)
(*    JSON document or other text.                                         *)
(*  - A stage function returns [raised, state]; raised = TRUE means the    *)
(*    exception left the stage.                                            *)
(***************************************************************************)
EXTENDS Integers, Sequences, FiniteSets, TLC

VARIABLES
    question,     \* run_analysis argument
    user_id,      \* run_analysis argument
    selected_datasets, \* keyword argument of the caller (None = not passed)
    configOk,     \* environment: does validate_config() pass
    catalog,      \* environment: data/catalog.json "datasets" array
    files,        \* environment: paths that exist on disk
    pc,           \* position: "start", "graph", "done"
    node,         \* graph node to run next ("__end__" after the last one)
    state,        \* the shared record held by the graph
    escaped,      \* None, or the exception that left a stage
    result,       \* what was returned to the caller (None = no record)
    ran,          \* stage invocations so far: [stage, before, status, raised]
    catalog_intact, \* does data/catalog.json hold a whole JSON document
    tmp_file,     \* data/catalog.tmp: None, or [datasets, complete]
    writer,       \* the register_dataset call in progress, if any
    reader,       \* the load_catalog call in progress and what the last one saw
    registered_calls,   \* history: arguments of the register_dataset calls completed
    catalog0,     \* history: the catalog before the first of them
    callers       \* two register_dataset calls running at the same time

vars == <<question, user_id, selected_datasets, configOk, catalog, files,
          pc, node, state, escaped, result, ran,
          catalog_intact, tmp_file, writer, reader, registered_calls, catalog0,
          callers>>

\* ------------------------------------------------------------------------
\* Bounds
\* ------------------------------------------------------------------------
MaxSteps == 2
MaxInsights == 4
MaxDatasets == 2
MaxRegistrations == 3

\* ------------------------------------------------------------------------
\* Optional values and Python truthiness
\* ------------------------------------------------------------------------
None == <<>>
Some(x) == <<x>>
Val(o) == o[1]

\* ------------------------------------------------------------------------
\* Text: str.lower(), "a in b", " ".join
\* ------------------------------------------------------------------------
LowerMap ==
    [c \in {"What", "WHAT", "ARE", "YOUR", "CAPABILITIES", "Can", "Revenue",
            "Region", "Show", "Tell", "Churn"} |->
        CASE c = "What" -> "what"
          [] c = "WHAT" -> "what"
          [] c = "ARE" -> "are"
          [] c = "YOUR" -> "your"
          [] c = "CAPABILITIES" -> "capabilities"
          [] c = "Can" -> "can"
          [] c = "Revenue" -> "revenue"
          [] c = "Region" -> "region"
          [] c = "Show" -> "show"
          [] c = "Tell" -> "tell"
          [] c = "Churn" -> "churn"]

LowerSym(c) == IF c \in DOMAIN LowerMap THEN LowerMap[c] ELSE c

str_lower(t) == [i \in 1..Len(t) |-> LowerSym(t[i])]

str_in(term, text) ==
    \E i \in 1..(Len(text) - Len(term) + 1) :
        SubSeq(text, i, i + Len(term) - 1) = term

RECURSIVE str_join(_, _)
str_join(sep, parts) ==
    IF parts = <<>> THEN <<>>
    ELSE IF Len(parts) = 1 THEN parts[1]
    ELSE parts[1] \o sep \o str_join(sep, Tail(parts))

str_startswith(text, prefix) ==
    /\ Len(prefix) <= Len(text)
    /\ SubSeq(text, 1, Len(prefix)) = prefix

\* ------------------------------------------------------------------------
\* Capability responses and JSON
\* ------------------------------------------------------------------------
FenceLine == [kind |-> "fence"]
TextLine == [kind |-> "text"]
JsonLine(v) == [kind |-> "json", value |-> v]

JObj(f) == [obj |-> f]
JArr(items) == [arr |-> items]
IsObj(v) == "obj" \in DOMAIN v

Raises == [raises |-> TRUE, lines |-> <<>>]
Says(ls) == [raises |-> FALSE, lines |-> ls]

EmptyJson == [x \in {} |-> 0]

\* dict.get(key, default)
Get(d, k, default) == IF k \in DOMAIN d THEN d[k] ELSE default

\* question_interpreter.py / analysis_planner.py: drop every fence line when
\* the text starts with a fence
strip_fences(ls) ==
    IF ls # <<>> /\ ls[1].kind = "fence"
    THEN SelectSeq(ls, LAMBDA ln : ln.kind # "fence")
    ELSE ls

\* json.loads: one JSON document and nothing else
json_loads(ls) ==
    IF Len(ls) = 1 /\ ls[1].kind = "json"
    THEN [ok |-> TRUE, value |-> ls[1].value]
    ELSE [ok |-> FALSE, value |-> JArr(<<>>)]

\* _extract_json: remove fences wherever they are, parse the whole text,
\* else parse the first brace-delimited block, else {}
_extract_json(ls) ==
    LET cleaned == SelectSeq(ls, LAMBDA ln : ln.kind # "fence")
        whole == json_loads(cleaned)
        blocks == SelectSeq(cleaned, LAMBDA ln : ln.kind = "json" /\ IsObj(ln.value))
    IN  IF whole.ok THEN whole.value
        ELSE IF blocks # <<>> THEN blocks[1].value
        ELSE JObj(EmptyJson)

\* ------------------------------------------------------------------------
\* state.py
\* ------------------------------------------------------------------------
Intent(task_type, entities, metrics, time_window, segments, confidence, is_generic) ==
    IF confidence >= 0 /\ confidence <= 100
    THEN [ok |-> TRUE,
          value |-> [task_type |-> task_type, entities |-> entities,
                     metrics |-> metrics, time_window |-> time_window,
                     segments |-> segments, confidence |-> confidence,
                     is_generic |-> is_generic]]
    ELSE [ok |-> FALSE, value |-> None]

create_initial_state(q, u) ==
    [question |-> q,
     user_id |-> u,
     interpreted_intent |-> None,
     available_data_sources |-> None,
     analysis_plan |-> None,
     plan_approved |-> FALSE,
     approval_notes |-> None,
     execution_results |-> None,
     execution_errors |-> <<>>,
     insights |-> <<>>,
     anomalies |-> <<>>,
     visualizations |-> <<>>,
     confidence_assessment |-> None,
     conversation_history |-> <<>>,
     execution_log |-> <<>>,
     status |-> "created",
     error_state |-> None,
     \* keys the stages write although AnalyticsState does not declare them
     pending_queries |-> None,
     direct_answer |-> None]

log_state_transition_reset(s, new_status, message) ==
    [s EXCEPT !.execution_log = << <<new_status, message>> >>,
              !.status = new_status]

log_state_transition(s, new_status, message) ==
    [s EXCEPT !.execution_log = Append(@, <<new_status, message>>),
              !.status = new_status]

Returned(s) == [raised |-> FALSE, error |-> None, state |-> s]
Raised(s, e) == [raised |-> TRUE, error |-> Some(e), state |-> s]

\* ------------------------------------------------------------------------
\* data_manager.py: the catalog as the stages read it
\* ------------------------------------------------------------------------
load_catalog == [datasets |-> catalog]

list_datasets == Get(load_catalog, "datasets", <<>>)

\* register_dataset: the entry built from the arguments
catalog_entry(name, filename, schema, kind) ==
    [name |-> name,
     filename |-> filename,
     kind |-> kind,
     location |-> IF kind = "file" THEN Some(<<"data/datasets/", filename>>)
                  ELSE IF "location" \in DOMAIN schema THEN Some(schema.location)
                  ELSE None,
     schema |-> schema]

register_dataset_append(datasets, name, filename, schema, kind) ==
    Append(datasets, catalog_entry(name, filename, schema, kind))

\* register_dataset: the datasets list after the for/else loop
register_dataset(datasets, name, filename, schema, kind) ==
    LET entry == catalog_entry(name, filename, schema, kind)
        hits == {i \in 1..Len(datasets) : datasets[i].name = name}
        first == CHOOSE i \in hits : \A j \in hits : i <= j
    IN  IF hits # {}
        THEN [datasets EXCEPT ![first] = entry]
        ELSE Append(datasets, entry)

\* ------------------------------------------------------------------------
\* agents/question_interpreter.py
\* ------------------------------------------------------------------------
generic_phrases ==
    << <<"what", "can", "you", "do">>,
       <<"what", "can", "you", "help", "with">>,
       <<"how", "can", "you", "help">>,
       <<"what", "are", "your", "capabilities">> >>

is_generic_question(q) ==
    \E i \in 1..Len(generic_phrases) : str_in(generic_phrases[i], str_lower(q))

fallback_intent(q) ==
    Intent("custom", <<>>, <<>>, "90d", <<>>, 50, is_generic_question(q)).value

\* a variant that adds to the entities of the intent already in the record
question_interpreter_node_accumulating(s, resp) ==
    LET loaded == json_loads(strip_fences(resp.lines))
        prior == IF s.interpreted_intent = None THEN <<>>
                 ELSE Val(s.interpreted_intent).entities
        intent_data == loaded.value.obj
        built == IF IsObj(loaded.value)
                 THEN Intent(Get(intent_data, "intent", "custom"),
                             prior \o Get(intent_data, "entities", <<>>),
                             Get(intent_data, "metrics", <<>>),
                             Get(intent_data, "time_window", "90d"),
                             Get(intent_data, "segments", <<>>),
                             Get(intent_data, "confidence", 80),
                             is_generic_question(s.question))
                 ELSE [ok |-> FALSE, value |-> None]
    IN  IF ~resp.raises /\ loaded.ok /\ built.ok
        THEN Returned(log_state_transition(
                 [s EXCEPT !.interpreted_intent = Some(built.value)],
                 "interpreting", "Parsed question"))
        ELSE IF resp.raises \/ ~loaded.ok
        THEN Raised(s, "UnboundLocalError: generic_phrases")
        ELSE Returned(log_state_transition(
                 [s EXCEPT !.interpreted_intent = Some(fallback_intent(s.question)),
                           !.error_state = Some("Failed to parse interpreter response cleanly")],
                 "interpreting", "Fell back to default intent due to JSON parse error"))

question_interpreter_node(s, resp) ==
    LET response_text == strip_fences(resp.lines)
        loaded == json_loads(response_text)
        \* generic_phrases is assigned after json.loads, inside the try block
        generic_phrases_bound == ~resp.raises /\ loaded.ok
        intent_data == loaded.value.obj
        built == IF IsObj(loaded.value)
                 THEN Intent(Get(intent_data, "intent", "custom"),
                             Get(intent_data, "entities", <<>>),
                             Get(intent_data, "metrics", <<>>),
                             Get(intent_data, "time_window", "90d"),
                             Get(intent_data, "segments", <<>>),
                             Get(intent_data, "confidence", 80),
                             is_generic_question(s.question))
                 ELSE [ok |-> FALSE, value |-> None]
    IN  IF generic_phrases_bound /\ built.ok
        THEN Returned(log_state_transition(
                 [s EXCEPT !.interpreted_intent = Some(built.value)],
                 "interpreting", "Parsed question"))
        ELSE IF ~generic_phrases_bound
        THEN Raised(s, "UnboundLocalError: generic_phrases")
        ELSE Returned(log_state_transition(
                 [s EXCEPT !.interpreted_intent = Some(fallback_intent(s.question)),
                           !.error_state = Some("Failed to parse interpreter response cleanly")],
                 "interpreting", "Fell back to default intent due to JSON parse error"))

\* ------------------------------------------------------------------------
\* agents/capabilities_helper.py
\* ------------------------------------------------------------------------
capabilities_helper_node(s) ==
    LET intent == s.interpreted_intent
        datasets == list_datasets
        listing == IF datasets # <<>> THEN "I currently see these user datasets"
                   ELSE "You haven't uploaded any datasets yet"
    IN  IF intent = None \/ ~Val(intent).is_generic
        THEN Returned(s)
        ELSE Returned(log_state_transition(
                 [s EXCEPT !.execution_log = Append(@, <<"capabilities", "I can help you analyze your data", listing>>)],
                 "completed", "Answered generic capabilities question"))

\* ------------------------------------------------------------------------
\* agents/data_advisor.py
\* ------------------------------------------------------------------------
get_all_available_sources ==
    [i \in 1..Len(list_datasets) |->
        LET ds == list_datasets[i]
        IN  [name |-> ds.name,
             location |-> ds.location,
             columns |-> ds.schema.columns,
             primary_keys |-> ds.schema.primary_keys,
             quality_score |-> ds.schema.quality_score,
             record_count |-> ds.schema.rows]]

source_matches(meta, intent) ==
    LET cols == [i \in 1..Len(meta.columns) |-> str_lower(meta.columns[i])]
        joined == str_join(<<" ">>, cols)
    IN  \/ \E i \in 1..Len(intent.metrics) : str_in(str_lower(intent.metrics[i]), joined)
        \/ \E i \in 1..Len(intent.entities) : str_in(str_lower(intent.entities[i]), joined)

DataSource(meta) ==
    [name |-> meta.name,
     table_name |-> IF meta.location # None /\ Val(meta.location) # <<>>
                    THEN Val(meta.location) ELSE <<meta.name>>,
     columns |-> meta.columns,
     primary_keys |-> meta.primary_keys,
     quality_score |-> meta.quality_score,
     last_updated |-> "now",
     record_count |-> meta.record_count]

data_advisor_node(s) ==
    LET intent == s.interpreted_intent
        all_sources == get_all_available_sources
        matched == SelectSeq(all_sources, LAMBDA m : source_matches(m, Val(intent)))
        use_all == matched = <<>> \/ Val(intent).is_generic
        relevant_sources == IF use_all THEN all_sources ELSE matched
        sources == [i \in 1..Len(relevant_sources) |-> DataSource(relevant_sources[i])]
        low_quality == SelectSeq(sources, LAMBDA src : src.quality_score < 85)
        warnings ==
            (IF use_all THEN <<"No specific datasets matched intent clearly">> ELSE <<>>)
            \o (IF low_quality # <<>> THEN <<"Low quality datasets detected">> ELSE <<>>)
        data_sources == [sources |-> sources,
                         total_sources |-> Len(sources),
                         coverage_score |-> IF sources # <<>> THEN 90 ELSE 0,
                         warnings |-> warnings]
    IN  IF intent = None
        THEN Returned(log_state_transition(
                 [s EXCEPT !.error_state = Some("No interpreted intent available")],
                 "failed", "No interpreted intent available"))
        ELSE Returned(log_state_transition(
                 [s EXCEPT !.available_data_sources = Some(data_sources)],
                 "validating",
                 IF sources # <<>> THEN "Found relevant datasets"
                 ELSE "No datasets available"))

\* ------------------------------------------------------------------------
\* agents/analysis_planner.py
\* ------------------------------------------------------------------------
AnalysisStep(i, step_data) ==
    [step_number |-> i,
     description |-> Get(step_data, "description", <<>>),
     required_tables |-> Get(step_data, "required_tables", <<>>),
     sql_template |-> Get(step_data, "sql_template", None),
     depends_on |-> Get(step_data, "depends_on", <<>>)]

fallback_plan_first_source(data_sources) ==
    [steps |-> << [step_number |-> 1,
                   description |-> <<"Basic aggregation over primary metric">>,
                   required_tables |-> IF data_sources.sources = <<>> THEN <<>>
                                       ELSE <<data_sources.sources[1].name>>,
                   sql_template |-> None,
                   depends_on |-> <<>>] >>,
     total_steps |-> 1,
     estimated_runtime_seconds |-> 10,
     warnings |-> <<"Planner JSON parse error, using fallback plan">>]

fallback_plan(data_sources) ==
    [steps |-> << [step_number |-> 1,
                   description |-> <<"Basic aggregation over primary metric">>,
                   required_tables |-> [i \in 1..Len(data_sources.sources) |->
                                           data_sources.sources[i].name],
                   sql_template |-> None,
                   depends_on |-> <<>>] >>,
     total_steps |-> 1,
     estimated_runtime_seconds |-> 10,
     warnings |-> <<"Planner JSON parse error, using fallback plan">>]

\* a variant that stores a plan without sources when its inputs are missing
analysis_planner_node_always_plans(s, resp) ==
    LET loaded == json_loads(strip_fences(resp.lines))
        parsed == ~resp.raises /\ loaded.ok /\ IsObj(loaded.value)
        plan_data == loaded.value.obj
        step_list == Get(plan_data, "steps", <<>>)
        steps == [i \in 1..Len(step_list) |-> AnalysisStep(i, step_list[i])]
        plan == [steps |-> steps,
                 total_steps |-> Len(steps),
                 estimated_runtime_seconds |-> Get(plan_data, "estimated_time", 30),
                 warnings |-> Get(plan_data, "warnings", <<>>)]
    IN  IF s.interpreted_intent = None \/ s.available_data_sources = None
        THEN Returned(log_state_transition(
                 [s EXCEPT !.analysis_plan = Some(fallback_plan([sources |-> <<>>])),
                           !.error_state = Some("Missing intent or data sources")],
                 "failed", "Missing intent or data sources"))
        ELSE IF parsed
        THEN Returned(log_state_transition(
                 [s EXCEPT !.analysis_plan = Some(plan)],
                 "planning", "Created analysis plan"))
        ELSE Returned(log_state_transition(
                 [s EXCEPT !.analysis_plan = Some(fallback_plan(Val(s.available_data_sources))),
                           !.error_state = Some("Planning failed to parse JSON cleanly")],
                 "planning", "Fell back to default single-step analysis plan"))

analysis_planner_node(s, resp) ==
    LET intent == s.interpreted_intent
        data_sources == s.available_data_sources
        loaded == json_loads(strip_fences(resp.lines))
        parsed == ~resp.raises /\ loaded.ok /\ IsObj(loaded.value)
        plan_data == loaded.value.obj
        step_list == Get(plan_data, "steps", <<>>)
        steps == [i \in 1..Len(step_list) |-> AnalysisStep(i, step_list[i])]
        plan == [steps |-> steps,
                 total_steps |-> Len(steps),
                 estimated_runtime_seconds |-> Get(plan_data, "estimated_time", 30),
                 warnings |-> Get(plan_data, "warnings", <<>>)]
    IN  IF intent = None \/ data_sources = None
        THEN Returned(log_state_transition(
                 [s EXCEPT !.error_state = Some("Missing intent or data sources")],
                 "failed", "Missing intent or data sources"))
        ELSE IF parsed
        THEN Returned(log_state_transition(
                 [s EXCEPT !.analysis_plan = Some(plan)],
                 "planning", "Created analysis plan"))
        ELSE Returned(log_state_transition(
                 [s EXCEPT !.analysis_plan = Some(fallback_plan(Val(data_sources))),
                           !.error_state = Some("Planning failed to parse JSON cleanly")],
                 "planning", "Fell back to default single-step analysis plan"))

\* ------------------------------------------------------------------------
\* agents/execution_agent.py: query generation
\* ------------------------------------------------------------------------
HAS_DUCKDB == TRUE

RECURSIVE concat_lines(_)
concat_lines(ls) ==
    IF ls = <<>> THEN <<>>
    ELSE (IF ls[1].kind = "fence" THEN <<"FENCE">>
          ELSE IF ls[1].kind = "sql" THEN ls[1].value
          ELSE <<"text">>) \o concat_lines(Tail(ls))

\* the two re.sub calls: one fence off the front, one off the back
strip_sql_fences(ls) ==
    LET front == IF ls # <<>> /\ ls[1].kind = "fence" THEN Tail(ls) ELSE ls
        back == IF front # <<>> /\ front[Len(front)].kind = "fence"
                THEN SubSeq(front, 1, Len(front) - 1) ELSE front
    IN  concat_lines(back)

generate_sql_for_step(step, s, data_sources, resp) ==
    IF resp.raises \/ data_sources = None
    THEN [ok |-> FALSE, sql |-> <<>>]
    ELSE [ok |-> TRUE, sql |-> strip_sql_fences(resp.lines)]

QueryExecutionRecord(step, sql) ==
    [step_number |-> step.step_number,
     description |-> IF step.description # <<>> THEN step.description
                     ELSE <<"Analysis step">>,
     sql |-> sql,
     executed |-> FALSE,
     success |-> None,
     rows_returned |-> None,
     error_message |-> None]

\* a variant that never uses the step's template
generated_query_placeholder_only(step, s, resp) ==
    LET gen == generate_sql_for_step(step, s, s.available_data_sources, resp)
    IN  QueryExecutionRecord(step, IF gen.ok THEN gen.sql
                                   ELSE <<"--", "Pseudo query">>)

generated_query(step, s, resp) ==
    LET gen == generate_sql_for_step(step, s, s.available_data_sources, resp)
        sql == IF gen.ok THEN gen.sql
               ELSE IF step.sql_template # None /\ Val(step.sql_template) # <<>>
               THEN Val(step.sql_template)
               ELSE <<"--", "Pseudo query">>
    IN  QueryExecutionRecord(step, sql)

\* resps[i] is the behaviour of the capability on the call made for step i
execution_agent_node(s, resps) ==
    LET plan == s.analysis_plan
        steps == Val(plan).steps
        queries == [i \in 1..Len(steps) |-> generated_query(steps[i], s, resps[i])]
    IN  IF plan = None \/ Val(plan).steps = <<>>
        THEN Returned(log_state_transition(
                 [s EXCEPT !.error_state = Some("No analysis plan available")],
                 "failed", "No analysis plan available"))
        ELSE Returned(log_state_transition(
                 [s EXCEPT !.pending_queries = Some(queries)],
                 "planning", "Prepared queries for execution"))

\* ------------------------------------------------------------------------
\* agents/execution_agent.py: query execution
\* ------------------------------------------------------------------------
\* a Python dict: entries in insertion order, assignment to an existing key
\* keeps its position
EmptyDict == <<>>

dict_has(d, k) == \E i \in 1..Len(d) : d[i].key = k

dict_get(d, k) == d[CHOOSE i \in 1..Len(d) : d[i].key = k].value

dict_set(d, k, v) ==
    IF dict_has(d, k)
    THEN [i \in 1..Len(d) |-> IF d[i].key = k THEN [key |-> k, value |-> v] ELSE d[i]]
    ELSE Append(d, [key |-> k, value |-> v])

RECURSIVE SumSeq(_)
SumSeq(xs) == IF xs = <<>> THEN 0 ELSE xs[1] + SumSeq(Tail(xs))

RECURSIVE Flatten(_)
Flatten(xss) == IF xss = <<>> THEN <<>> ELSE xss[1] \o Flatten(Tail(xss))

Min(a, b) == IF a < b THEN a ELSE b

_is_file_backed_table(table_name) ==
    /\ table_name # <<>>
    /\ \/ str_startswith(table_name, <<"data/datasets/">>)
       \/ str_startswith(table_name, <<"file://", "data/datasets/">>)

\* what pd.read_csv finds in each file of the environment
csv_contents(path) ==
    IF path = <<"data/datasets/", "sales.csv">>
    THEN [rows |-> 2, metrics |-> <<"revenue">>, dimensions |-> <<"region">>]
    ELSE [rows |-> 12, metrics |-> <<"amount">>, dimensions |-> <<>>]

_load_dataframe_from_table_name(table_name) ==
    LET path_str == IF str_startswith(table_name, <<"file://">>)
                    THEN Tail(table_name) ELSE table_name
    IN  IF path_str \in files
        THEN [ok |-> TRUE, df |-> csv_contents(path_str)]
        ELSE [ok |-> FALSE, df |-> csv_contents(path_str)]

_analyze_dataframe(df) ==
    IF df.metrics # <<>> /\ df.dimensions # <<>>
    THEN [summary |-> "describe", sample |-> Min(df.rows, 20),
          groupby |-> [dimension |-> df.dimensions[1], metric |-> df.metrics[1]]]
    ELSE [summary |-> "describe", sample |-> Min(df.rows, 20)]

\* the sql_results dict after the first n queries; engine[i] is what
\* con.execute does with query i
RECURSIVE sql_results_of(_, _, _)
sql_results_of(queries, engine, n) ==
    IF n = 0 THEN EmptyDict
    ELSE LET q == queries[n]
             before == sql_results_of(queries, engine, n - 1)
         IN  IF q.sql # <<>> /\ q.sql[1] # "--" /\ engine[n].ok
             THEN dict_set(before, <<ToString(q.step_number), q.description>>,
                           [sql |-> q.sql,
                            data |-> Min(engine[n].rows, 50),
                            row_count |-> engine[n].rows,
                            columns |-> <<"columns">>])
             ELSE before

\* a variant that ends the pass at the first source that fails to load
RECURSIVE descriptive_pass_stop_on_error(_, _, _)
descriptive_pass_stop_on_error(all_results, file_backed_sources, n) ==
    IF n = 0 THEN all_results
    ELSE LET before == descriptive_pass_stop_on_error(all_results, file_backed_sources, n - 1)
             loaded == _load_dataframe_from_table_name(file_backed_sources[n].table_name)
             stopped == \E j \in 1..(n - 1) :
                            ~_load_dataframe_from_table_name(
                                 file_backed_sources[j].table_name).ok
         IN  IF loaded.ok /\ ~stopped
             THEN dict_set(before, file_backed_sources[n].name, _analyze_dataframe(loaded.df))
             ELSE before

\* all_results after the descriptive pass over the first n file-backed sources
RECURSIVE descriptive_pass(_, _, _)
descriptive_pass(all_results, file_backed_sources, n) ==
    IF n = 0 THEN all_results
    ELSE LET before == descriptive_pass(all_results, file_backed_sources, n - 1)
             loaded == _load_dataframe_from_table_name(file_backed_sources[n].table_name)
         IN  IF loaded.ok
             THEN dict_set(before, file_backed_sources[n].name, _analyze_dataframe(loaded.df))
             ELSE before

\* a variant whose query loop ends at the first engine error
_execute_sql_on_csvs_stop_on_error(queries, file_backed_sources, log, engine) ==
    LET loads == [i \in 1..Len(file_backed_sources) |->
                    _load_dataframe_from_table_name(file_backed_sources[i].table_name)]
        inert(q) == q.sql = <<>> \/ q.sql[1] = "--"
        stopped(i) == \E j \in 1..(i - 1) : ~inert(queries[j]) /\ ~engine[j].ok
        run(i) ==
            LET q == queries[i]
            IN  IF stopped(i) THEN q
                ELSE IF inert(q)
                THEN [q EXCEPT !.executed = TRUE, !.success = Some(FALSE),
                               !.error_message = Some("No valid SQL generated")]
                ELSE IF engine[i].ok
                THEN [q EXCEPT !.executed = TRUE, !.success = Some(TRUE),
                               !.rows_returned = Some(engine[i].rows)]
                ELSE [q EXCEPT !.executed = TRUE, !.success = Some(FALSE),
                               !.error_message = Some(engine[i].error)]
    IN  IF \E i \in 1..Len(loads) : loads[i].ok
        THEN [queries |-> [i \in 1..Len(queries) |-> run(i)],
              log |-> log,
              sql_results |-> sql_results_of(queries, engine, Len(queries))]
        ELSE [queries |-> queries, log |-> log, sql_results |-> EmptyDict]

_execute_sql_on_csvs(queries, file_backed_sources, log, engine) ==
    LET loads == [i \in 1..Len(file_backed_sources) |->
                    _load_dataframe_from_table_name(file_backed_sources[i].table_name)]
        reg_log == [i \in 1..Len(file_backed_sources) |->
                      IF loads[i].ok
                      THEN <<"execute", "Registered table", file_backed_sources[i].name>>
                      ELSE <<"execute", "Failed to register", file_backed_sources[i].name>>]
        registered == \E i \in 1..Len(loads) : loads[i].ok
        inert(q) == q.sql = <<>> \/ q.sql[1] = "--"
        run(i) ==
            LET q == queries[i]
            IN  IF inert(q)
                THEN [q EXCEPT !.executed = TRUE, !.success = Some(FALSE),
                               !.error_message = Some("No valid SQL generated")]
                ELSE IF engine[i].ok
                THEN [q EXCEPT !.executed = TRUE, !.success = Some(TRUE),
                               !.rows_returned = Some(engine[i].rows)]
                ELSE [q EXCEPT !.executed = TRUE, !.success = Some(FALSE),
                               !.error_message = Some(engine[i].error)]
        sql_results == sql_results_of(queries, engine, Len(queries))
        run_log == [i \in 1..Len(queries) |->
                      IF inert(queries[i]) THEN <<>>
                      ELSE IF engine[i].ok
                      THEN << <<"execute", "SQL step returned rows", ToString(queries[i].step_number)>> >>
                      ELSE << <<"execute", "SQL step failed", ToString(queries[i].step_number)>> >>]
    IN  IF ~HAS_DUCKDB
        THEN [queries |-> queries, log |-> log, sql_results |-> EmptyDict]
        ELSE IF ~registered
        THEN [queries |-> queries, log |-> log \o reg_log, sql_results |-> EmptyDict]
        ELSE [queries |-> [i \in 1..Len(queries) |-> run(i)],
              log |-> log \o reg_log \o Flatten(run_log),
              sql_results |-> sql_results]

\* a variant that marks every query, executed or not
simulate_pending_all(queries, non_file_sources) ==
    [i \in 1..Len(queries) |->
        IF non_file_sources # <<>>
        THEN [queries[i] EXCEPT !.executed = TRUE, !.success = Some(TRUE),
                                !.rows_returned = Some(100)]
        ELSE queries[i]]

\* the loop over the queries when there are non-file sources
simulate_pending(queries, non_file_sources) ==
    [i \in 1..Len(queries) |->
        LET q == queries[i]
        IN  IF non_file_sources # <<>> /\ ~q.executed
            THEN [q EXCEPT !.executed = TRUE, !.success = Some(TRUE),
                           !.rows_returned = Some(100)]
            ELSE q]

\* a variant that reports success whatever the error list holds
exec_results_of_always_success(queries, total_rows, execution_errors, all_results) ==
    [queries_executed |-> queries,
     row_count |-> total_rows,
     execution_time_total_ms |-> 0,
     success |-> TRUE,
     errors |-> execution_errors,
     result_data |-> all_results]

\* the ExecutionResults built at the end of execute_queries_node
exec_results_of(queries, total_rows, execution_errors, all_results) ==
    [queries_executed |-> queries,
     row_count |-> total_rows,
     execution_time_total_ms |-> 0,
     success |-> (Len(execution_errors) = 0),
     errors |-> execution_errors,
     result_data |-> all_results]

execute_queries_node(s, engine) ==
    LET queries == IF s.pending_queries = None THEN <<>> ELSE Val(s.pending_queries)
        data_sources == s.available_data_sources
        sources == Val(data_sources).sources
        file_backed_sources ==
            SelectSeq(sources, LAMBDA src : _is_file_backed_table(src.table_name))
        \* 1) SQL against the CSV files
        sql_run == IF file_backed_sources # <<>> /\ HAS_DUCKDB
                   THEN _execute_sql_on_csvs(queries, file_backed_sources,
                                             s.execution_log, engine)
                   ELSE [queries |-> queries, log |-> s.execution_log,
                         sql_results |-> EmptyDict]
        query_part == IF sql_run.sql_results # <<>>
                      THEN dict_set(EmptyDict, "query_results", sql_run.sql_results)
                      ELSE EmptyDict
        sql_rows == SumSeq([i \in 1..Len(sql_run.sql_results) |->
                               sql_run.sql_results[i].value.row_count])
        \* 2) descriptive pass per file-backed source
        loads == [i \in 1..Len(file_backed_sources) |->
                    _load_dataframe_from_table_name(file_backed_sources[i].table_name)]
        all_results == descriptive_pass(query_part, file_backed_sources,
                                        Len(file_backed_sources))
        file_rows == SumSeq([i \in 1..Len(loads) |->
                                IF loads[i].ok THEN loads[i].df.rows ELSE 0])
        failed == SelectSeq([i \in 1..Len(loads) |-> i], LAMBDA i : ~loads[i].ok)
        execution_errors == [i \in 1..Len(failed) |->
                                <<"Failed to analyze dataset", file_backed_sources[failed[i]].name>>]
        pass_log == [i \in 1..Len(loads) |->
                       IF loads[i].ok
                       THEN <<"execute", "Summary analysis", file_backed_sources[i].name>>
                       ELSE <<"execute", "Failed to analyze dataset", file_backed_sources[i].name>>]
        \* 3) non-file sources: simulated execution
        non_file_sources ==
            SelectSeq(sources, LAMBDA src : ~_is_file_backed_table(src.table_name))
        simulated == simulate_pending(sql_run.queries, non_file_sources)
        sim_log == IF non_file_sources # <<>>
                   THEN << <<"execute", "Simulated execution", ToString(Len(non_file_sources))>> >>
                   ELSE <<>>
        total_rows == sql_rows + file_rows + Len(non_file_sources) * 100
        exec_results == exec_results_of(simulated, total_rows, execution_errors,
                                        all_results)
    IN  IF data_sources = None \/ Val(data_sources).sources = <<>>
        THEN Returned(log_state_transition(
                 [s EXCEPT !.error_state = Some("No data sources available for execution")],
                 "failed", "No data sources available for execution"))
        ELSE Returned(log_state_transition(
                 [s EXCEPT !.execution_log = sql_run.log \o pass_log \o sim_log,
                           !.pending_queries = IF s.pending_queries = None THEN None
                                               ELSE Some(simulated),
                           !.execution_results = Some(exec_results),
                           !.execution_errors = execution_errors,
                           !.error_state = IF execution_errors # <<>>
                                           THEN Some("Failed to analyze dataset")
                                           ELSE @],
                 "executing", "Executed analysis"))

\* ------------------------------------------------------------------------
\* agents/answer_synthesizer.py
\* ------------------------------------------------------------------------
answer_synthesizer_node(s, resp) ==
    LET exec_results == s.execution_results
    IN  IF exec_results = None \/ Val(exec_results).result_data = <<>>
        THEN Returned(log_state_transition(
                 [s EXCEPT !.direct_answer = Some("No data was available to answer this question.")],
                 "answering", "No data for answer synthesis"))
        ELSE Returned(log_state_transition(
                 [s EXCEPT !.direct_answer = IF resp.raises
                                             THEN Some("Could not synthesize answer")
                                             ELSE Some("capability answer")],
                 "answering", "Generated direct answer"))

\* ------------------------------------------------------------------------
\* agents/insight_generator.py
\* ------------------------------------------------------------------------
Insight(insight_obj) ==
    [finding |-> Get(insight_obj, "finding", ""),
     metric |-> Get(insight_obj, "metric", "unknown"),
     magnitude |-> Get(insight_obj, "magnitude", "N/A"),
     confidence |-> Get(insight_obj, "confidence", 75),
     business_impact |-> Get(insight_obj, "business_impact", "medium")]

Anomaly(anomaly_obj) ==
    [description |-> Get(anomaly_obj, "description", ""),
     affected_metric |-> Get(anomaly_obj, "affected_metric", "unknown"),
     magnitude |-> Get(anomaly_obj, "magnitude", "N/A"),
     confidence |-> Get(anomaly_obj, "confidence", 75),
     severity |-> Get(anomaly_obj, "severity", "medium")]

insight_generator_node(s, resp) ==
    LET exec_results == s.execution_results
        extracted == _extract_json(resp.lines)
        insight_data == extracted.obj
        insight_objs == Get(insight_data, "insights", <<>>)
        anomaly_objs == Get(insight_data, "anomalies", <<>>)
        insights == [i \in 1..Len(insight_objs) |-> Insight(insight_objs[i])]
        anomalies == [i \in 1..Len(anomaly_objs) |-> Anomaly(anomaly_objs[i])]
        valid == /\ ~resp.raises
                 /\ IsObj(extracted)
                 /\ \A i \in 1..Len(insights) :
                        insights[i].confidence >= 0 /\ insights[i].confidence <= 100
                 /\ \A i \in 1..Len(anomalies) :
                        anomalies[i].confidence >= 0 /\ anomalies[i].confidence <= 100
    IN  IF exec_results = None \/ Val(exec_results).result_data = <<>>
        THEN Returned(log_state_transition(
                 [s EXCEPT !.error_state = Some("No data available for insight generation")],
                 "failed", "No data available for insight generation"))
        ELSE IF valid
        THEN Returned(log_state_transition(
                 [s EXCEPT !.insights = insights, !.anomalies = anomalies],
                 "visualizing", "Generated insights"))
        ELSE Returned(log_state_transition(
                 [s EXCEPT !.error_state = Some("Insight generation failed")],
                 "failed", "Insight generation failed"))

\* ------------------------------------------------------------------------
\* agents/visualization_agent.py
\* ------------------------------------------------------------------------
\* a variant that gives every chart the same id
Visualization_same_id(chart_idx, viz_data, insight) ==
    [chart_id |-> 0,
     chart_type |-> Get(viz_data, "chart_type", "bar"),
     title |-> Get(viz_data, "title", "Chart for finding"),
     data_fields |-> Get(viz_data, "dimensions", EmptyJson),
     description |-> insight.finding,
     appropriateness_score |-> Get(viz_data, "confidence", 85)]

Visualization(chart_idx, viz_data, insight) ==
    [chart_id |-> chart_idx,
     chart_type |-> Get(viz_data, "chart_type", "bar"),
     title |-> Get(viz_data, "title", "Chart for finding"),
     data_fields |-> Get(viz_data, "dimensions", EmptyJson),
     description |-> insight.finding,
     appropriateness_score |-> Get(viz_data, "confidence", 85)]

groupby_visualization(chart_idx, ds_name, gb) ==
    [chart_id |-> chart_idx,
     chart_type |-> "bar",
     title |-> ds_name,
     data_fields |-> [x |-> gb.dimension, y |-> gb.metric, dataset |-> ds_name],
     description |-> "Auto-generated bar chart from groupby",
     appropriateness_score |-> 80]

\* resps[i] is the behaviour of the capability on the call made for insight i
visualization_agent_node(s, resps) ==
    LET exec_results == s.execution_results
        result_data == Val(exec_results).result_data
        insights == s.insights
        considered == SubSeq(insights, 1, Min(3, Len(insights)))
        viz_data(i) == _extract_json(resps[i].lines)
        made(i) == /\ ~resps[i].raises
                   /\ IsObj(viz_data(i))
                   /\ Get(viz_data(i).obj, "confidence", 85) >= 0
                   /\ Get(viz_data(i).obj, "confidence", 85) <= 100
        indices == [i \in 1..Len(considered) |-> i]
        good == SelectSeq(indices, made)
        bad == SelectSeq(indices, LAMBDA i : ~made(i))
        chart_idx_at(i) == Cardinality({j \in 1..(i - 1) : made(j)})
        from_insights == [k \in 1..Len(good) |->
                             Visualization(k - 1, viz_data(good[k]).obj, considered[good[k]])]
        new_errors == [k \in 1..Len(bad) |->
                          <<"Failed to generate visualization", ToString(chart_idx_at(bad[k]))>>]
        \* no insights: one bar chart per dataset entry that has a groupby;
        \* the "query_results" entry holds step results and has none
        grouped == SelectSeq(result_data,
                             LAMBDA e : e.key # "query_results" /\ "groupby" \in DOMAIN e.value)
        from_groupby == [k \in 1..Len(grouped) |->
                            groupby_visualization(k - 1, grouped[k].key, grouped[k].value.groupby)]
    IN  IF exec_results = None \/ Val(exec_results).result_data = <<>>
        THEN Returned(log_state_transition(
                 [s EXCEPT !.error_state = Some("No data available for visualization")],
                 "failed", "No data available for visualization"))
        ELSE IF insights # <<>>
        THEN Returned(log_state_transition(
                 [s EXCEPT !.visualizations = from_insights,
                           !.execution_errors = @ \o new_errors],
                 "completed", "Generated visualizations"))
        ELSE Returned(log_state_transition(
                 [s EXCEPT !.visualizations = from_groupby],
                 "completed", "Generated visualizations"))

\* ------------------------------------------------------------------------
\* agents/confidence_guardrails.py
\* ------------------------------------------------------------------------
MIN_DATA_POINTS == 10

\* the sample-size check made before the capability is called
sample_size_caveats_never(row_count) == <<>>

sample_size_caveats(row_count) ==
    IF row_count < MIN_DATA_POINTS
    THEN <<"Limited sample size. Results may be noisy.">> ELSE <<>>

sample_size_issues(row_count) ==
    IF row_count < MIN_DATA_POINTS THEN <<"insufficient_sample_size">> ELSE <<>>

\* the ConfidenceMetrics written by the except handler
fallback_confidence_metrics_bare(row_count, caveats, data_quality_issues) ==
    [overall_confidence |-> 50,
     data_freshness |-> "recent",
     sample_size_adequate |-> (row_count >= MIN_DATA_POINTS),
     completeness_score |-> 70,
     caveats |-> <<"LLM assessment unavailable">>,
     data_quality_issues |-> data_quality_issues,
     recommendations |-> <<"Re-run analysis for a more detailed confidence assessment">>]

fallback_confidence_metrics(row_count, caveats, data_quality_issues) ==
    [overall_confidence |-> 50,
     data_freshness |-> "recent",
     sample_size_adequate |-> (row_count >= MIN_DATA_POINTS),
     completeness_score |-> 70,
     caveats |-> caveats \o <<"LLM assessment unavailable">>,
     data_quality_issues |-> data_quality_issues,
     recommendations |-> <<"Re-run analysis for a more detailed confidence assessment">>]

confidence_guardrails_node(s, resp) ==
    LET results == s.execution_results
        row_count == Val(results).row_count
        caveats == sample_size_caveats(row_count)
                   \o <<"Analysis based on data from last 24 hours">>
        data_quality_issues == sample_size_issues(row_count)
        extracted == _extract_json(resp.lines)
        confidence_data == extracted.obj
        overall == Get(confidence_data, "overall_confidence", 75)
        assessed == ~resp.raises /\ IsObj(extracted) /\ overall >= 0 /\ overall <= 100
        confidence_metrics ==
            [overall_confidence |-> overall,
             data_freshness |-> "recent",
             sample_size_adequate |-> (row_count >= MIN_DATA_POINTS),
             completeness_score |-> 90,
             caveats |-> caveats \o Get(confidence_data, "caveats", <<>>),
             data_quality_issues |-> data_quality_issues
                                     \o Get(confidence_data, "data_quality_issues", <<>>),
             recommendations |-> Get(confidence_data, "recommendations", <<>>)]
        fallback_metrics ==
            fallback_confidence_metrics(row_count, caveats, data_quality_issues)
    IN  IF results = None
        THEN Returned(log_state_transition(
                 [s EXCEPT !.error_state = Some("No execution results to assess")],
                 "failed", "No execution results to assess"))
        ELSE IF assessed
        THEN Returned(log_state_transition(
                 [s EXCEPT !.confidence_assessment = Some(confidence_metrics)],
                 "completed", "Confidence assessment complete"))
        ELSE Returned(log_state_transition(
                 [s EXCEPT !.confidence_assessment = Some(fallback_metrics)],
                 "completed", "Confidence assessment completed with fallback"))

\* ------------------------------------------------------------------------
\* graph.py
\* ------------------------------------------------------------------------
route_after_interpreter(s) ==
    LET intent == s.interpreted_intent
    IN  IF intent # None /\ Val(intent).is_generic
        THEN "capabilities_helper" ELSE "data_advisor"

route_after_execution_unchecked(s) ==
    IF s.execution_results = None THEN "guardrails" ELSE "insights"

route_after_execution(s) ==
    LET exec_results == s.execution_results
    IN  IF exec_results = None \/ ~Val(exec_results).success
        THEN "guardrails" ELSE "insights"

\* StateGraph(AnalyticsState): the graph keeps one channel per key declared
\* in AnalyticsState; a key a stage adds beyond those is not carried to the
\* next stage
graph_channels(s) == [s EXCEPT !.pending_queries = None, !.direct_answer = None]

\* ------------------------------------------------------------------------
\* Inputs: questions, catalog, files, capability and engine behaviours
\* ------------------------------------------------------------------------
Questions ==
    { <<"What", "can", "you", "do", "?">>,
      <<"Tell", "me", "WHAT", "ARE", "YOUR", "CAPABILITIES">>,
      <<"Show", "Revenue", "by", "Region">>,
      <<"what", "can", "you", "show", "?">> }

UserIds == {"user"}

\* run_analysis(question, user_id): no keyword; the web page always passes
\* selected_datasets=..., the chosen names or nothing chosen
DatasetSelections ==
    {None, Some(<<>>), Some(<<"sales">>), Some(<<"orders", "sales">>),
     Some(<<"unknown">>)}

SalesPath == <<"data/datasets/", "sales.csv">>
OrdersPath == <<"data/datasets/", "orders.csv">>

\* entries as register_dataset writes them
DatasetPool ==
    << [name |-> "sales", filename |-> "sales.csv", kind |-> "file",
        location |-> Some(SalesPath),
        schema |-> [columns |-> << <<"Region">>, <<"Revenue">> >>, primary_keys |-> <<>>,
                    quality_score |-> 90, rows |-> 2]],
       [name |-> "warehouse_revenue", filename |-> "", kind |-> "warehouse",
        location |-> Some(<<"analytics.", "revenue_fact">>),
        schema |-> [columns |-> << <<"revenue">>, <<"units">> >>, primary_keys |-> <<>>,
                    quality_score |-> 80, rows |-> 1000]],
       [name |-> "orders", filename |-> "orders.csv", kind |-> "file",
        location |-> Some(OrdersPath),
        schema |-> [columns |-> << <<"amount">> >>, primary_keys |-> <<>>,
                    quality_score |-> 90, rows |-> 12]],
       [name |-> "ledger", filename |-> "", kind |-> "warehouse",
        location |-> None,
        schema |-> [columns |-> << <<"Churn">> >>, primary_keys |-> <<>>,
                    quality_score |-> 95, rows |-> 50]] >>

\* catalogs: at most MaxDatasets entries of the pool, in pool order
Catalogs ==
    { [i \in 1..Cardinality(picked) |->
          DatasetPool[CHOOSE k \in picked : Cardinality({j \in picked : j < k}) = i - 1]] :
      picked \in {p \in SUBSET (1..Len(DatasetPool)) : Cardinality(p) <= MaxDatasets} }

\* the files a catalog points at; each one exists on disk or not
CatalogPaths(cat) ==
    {Val(cat[i].location) : i \in {j \in 1..Len(cat) : cat[j].kind = "file"}}

IntentRevenue ==
    JObj([intent |-> "trend_analysis", entities |-> << <<"Region">> >>,
          metrics |-> << <<"Revenue">> >>, time_window |-> "30d",
          segments |-> << <<"Region">> >>, confidence |-> 85])
IntentSparse == JObj([metrics |-> << <<"margin">> >>])
IntentOutOfRange == JObj([intent |-> "forecast", confidence |-> 150])

InterpreterResponses ==
    { Raises,
      Says(<<TextLine>>),
      Says(<<TextLine, JsonLine(IntentRevenue)>>),
      Says(<<JsonLine(IntentRevenue)>>),
      Says(<<FenceLine, JsonLine(IntentRevenue), FenceLine>>),
      Says(<<JsonLine(IntentSparse)>>),
      Says(<<JsonLine(JArr(<<>>))>>),
      Says(<<JsonLine(IntentOutOfRange)>>) }

StepFull ==
    [description |-> <<"Revenue", "by", "region">>, required_tables |-> <<"sales">>,
     sql_template |-> Some(<<"SELECT", "*", "FROM", "sales">>), depends_on |-> <<>>]
StepBare == [required_tables |-> <<>>]

StepLists == UNION {[1..n -> {StepFull, StepBare}] : n \in 0..MaxSteps}

PlannerResponses ==
    { Raises,
      Says(<<TextLine>>),
      Says(<<JsonLine(JArr(<<>>))>>),
      Says(<<FenceLine, JsonLine(JObj([steps |-> <<StepFull>>])), FenceLine>>) }
    \cup { Says(<<JsonLine(JObj([steps |-> steps, estimated_time |-> 30, warnings |-> <<>>]))>>) :
           steps \in StepLists }

SqlLine(v) == [kind |-> "sql", value |-> v]
GroupByQuery == <<"SELECT", "region", "SUM(revenue)", "FROM", "sales", "GROUP BY", "region">>

SqlResponses ==
    { Raises,
      Says(<<SqlLine(GroupByQuery)>>),
      Says(<<FenceLine, SqlLine(GroupByQuery), FenceLine>>),
      Says(<<>>) }

EngineOutcomes ==
    { [ok |-> TRUE, rows |-> 2, error |-> ""],
      [ok |-> TRUE, rows |-> 60, error |-> ""],
      [ok |-> FALSE, rows |-> 0, error |-> "Binder Error"] }

AnswerResponses == {Raises, Says(<<TextLine>>)}

InsightObj == [finding |-> "Revenue is concentrated in one region", metric |-> "revenue",
               magnitude |-> "+15%", confidence |-> 80, business_impact |-> "high"]
AnomalyObj == [description |-> "Unexpected spike"]

InsightResponses ==
    { Raises,
      Says(<<TextLine>>),
      Says(<<JsonLine(JArr(<<>>))>>),
      Says(<<JsonLine(JObj([insights |-> << [finding |-> "x", confidence |-> 150] >>]))>>),
      Says(<<TextLine, FenceLine,
             JsonLine(JObj([insights |-> <<InsightObj>>, anomalies |-> <<AnomalyObj>>])),
             FenceLine>>) }
    \cup { Says(<<JsonLine(JObj([insights |-> [i \in 1..n |-> InsightObj]]))>>) :
           n \in 0..MaxInsights }

VizObj == [chart_type |-> "line", title |-> "Revenue by region",
           dimensions |-> [x |-> "region", y |-> "revenue"], confidence |-> 90]

VizResponses ==
    { Raises,
      Says(<<TextLine>>),
      Says(<<FenceLine, JsonLine(JObj(VizObj)), FenceLine>>) }

GuardrailResponses ==
    { Raises,
      Says(<<TextLine>>),
      Says(<<JsonLine(JArr(<<>>))>>),
      Says(<<JsonLine(JObj([overall_confidence |-> 150]))>>),
      Says(<<FenceLine, JsonLine(JObj([overall_confidence |-> 90])), FenceLine>>),
      Says(<<JsonLine(JObj([overall_confidence |-> 85, caveats |-> <<"Seasonality">>,
                             data_quality_issues |-> <<>>,
                             recommendations |-> <<"Collect more data">>]))>>) }

\* ------------------------------------------------------------------------
\* main.py run_analysis and the graph run
\* ------------------------------------------------------------------------
\* no register_dataset or load_catalog call is in progress
CatalogAtRest ==
    /\ catalog_intact = TRUE
    /\ tmp_file = None
    /\ writer = [pc |-> "idle", catalog |-> <<>>, args |-> None]
    /\ reader = [pc |-> "idle", handle |-> None, seen |-> None]
    /\ registered_calls = <<>>
    /\ catalog0 = catalog
    /\ callers = [w \in {1, 2} |-> [pc |-> "idle", catalog |-> <<>>, args |-> None,
                                   file |-> "none", overlap |-> FALSE]]

Stages == {"interpreter", "capabilities_helper", "data_advisor", "planner",
           "execution_agent", "execute_queries", "answer_synthesizer",
           "insights", "visualizations", "guardrails"}

env == <<question, user_id, selected_datasets, configOk, catalog, files,
         catalog_intact, tmp_file, writer, reader, registered_calls, catalog0,
         callers>>

Init ==
    /\ question \in Questions
    /\ user_id \in UserIds
    /\ selected_datasets \in DatasetSelections
    /\ configOk \in BOOLEAN
    /\ catalog \in Catalogs
    /\ files \in SUBSET CatalogPaths(catalog)
    /\ pc = "start"
    /\ node = "__start__"
    /\ state = create_initial_state(question, user_id)
    /\ escaped = None
    /\ result = None
    /\ ran = <<>>
    /\ CatalogAtRest

\* the call binds its arguments to (question, user_id, stream): a keyword
\* the signature does not have raises TypeError before the body runs. Then
\* validate_config, create_initial_state, get_graph, entry edge of the graph
run_analysis ==
    /\ pc = "start"
    /\ IF selected_datasets # None
       THEN /\ pc' = "done"
            /\ escaped' = Some("TypeError: unexpected keyword argument selected_datasets")
            /\ UNCHANGED <<node, state>>
       ELSE IF configOk
       THEN /\ pc' = "graph"
            /\ node' = "interpreter"
            /\ state' = graph_channels(create_initial_state(question, user_id))
            /\ UNCHANGED escaped
       ELSE /\ pc' = "done"
            /\ UNCHANGED <<node, state, escaped>>
    /\ UNCHANGED <<env, result, ran>>

\* one node of the graph: the stage function is applied to the record; its
\* result is written to the channels and the outgoing edge is followed, or
\* its exception ends graph.invoke
RunNode(name, out, next) ==
    /\ pc = "graph"
    /\ escaped = None
    /\ node = name
    /\ ran' = Append(ran, [stage |-> name, before |-> state.status,
                           status |-> out.state.status, raised |-> out.raised])
    /\ IF out.raised
       THEN /\ escaped' = out.error
            /\ UNCHANGED <<node, state>>
       ELSE /\ state' = graph_channels(out.state)
            /\ node' = next
            /\ UNCHANGED escaped
    /\ UNCHANGED <<env, pc, result>>

Interpreter ==
    /\ node = "interpreter"
    /\ \E resp \in InterpreterResponses :
           LET out == question_interpreter_node(state, resp)
           IN  RunNode("interpreter", out, route_after_interpreter(out.state))

CapabilitiesHelper ==
    /\ node = "capabilities_helper"
    /\ RunNode("capabilities_helper", capabilities_helper_node(state), "__end__")

DataAdvisor ==
    /\ node = "data_advisor"
    /\ RunNode("data_advisor", data_advisor_node(state), "planner")

Planner ==
    /\ node = "planner"
    /\ \E resp \in PlannerResponses :
           RunNode("planner", analysis_planner_node(state, resp), "execution_agent")

NumSteps(s) == IF s.analysis_plan = None THEN 0 ELSE Len(Val(s.analysis_plan).steps)

ExecutionAgent ==
    /\ node = "execution_agent"
    /\ \E resps \in [1..NumSteps(state) -> SqlResponses] :
           RunNode("execution_agent", execution_agent_node(state, resps), "execute_queries")

NumQueries(s) == IF s.pending_queries = None THEN 0 ELSE Len(Val(s.pending_queries))

\* a variant whose outgoing edge is the routing decision itself
ExecuteQueriesThenRoute ==
    /\ node = "execute_queries"
    /\ \E engine \in [1..NumQueries(state) -> EngineOutcomes] :
           LET out == execute_queries_node(state, engine)
           IN  RunNode("execute_queries", out,
                       route_after_execution(graph_channels(out.state)))

ExecuteQueries ==
    /\ node = "execute_queries"
    /\ \E engine \in [1..NumQueries(state) -> EngineOutcomes] :
           RunNode("execute_queries", execute_queries_node(state, engine),
                   "answer_synthesizer")

AnswerSynthesizer ==
    /\ node = "answer_synthesizer"
    /\ \E resp \in AnswerResponses :
           LET out == answer_synthesizer_node(state, resp)
           IN  RunNode("answer_synthesizer", out,
                       route_after_execution(graph_channels(out.state)))

Insights ==
    /\ node = "insights"
    /\ \E resp \in InsightResponses :
           RunNode("insights", insight_generator_node(state, resp), "visualizations")

Visualizations ==
    /\ node = "visualizations"
    /\ \E resps \in [1..Min(3, Len(state.insights)) -> VizResponses] :
           RunNode("visualizations", visualization_agent_node(state, resps), "guardrails")

Guardrails ==
    /\ node = "guardrails"
    /\ \E resp \in GuardrailResponses :
           RunNode("guardrails", confidence_guardrails_node(state, resp), "__end__")

\* graph.invoke has returned or raised: run_analysis hands a record back.
\* After an exception it is the record run_analysis created, whose log list
\* is the one the stages appended to.
Return ==
    /\ pc = "graph"
    /\ \/ /\ escaped = None
          /\ node = "__end__"
          /\ result' = Some(state)
       \/ /\ escaped # None
          /\ result' = Some([create_initial_state(question, user_id)
                                EXCEPT !.execution_log = state.execution_log])
    /\ pc' = "done"
    /\ UNCHANGED <<env, node, state, escaped, ran>>

Next ==
    \/ run_analysis
    \/ Interpreter
    \/ CapabilitiesHelper
    \/ DataAdvisor
    \/ Planner
    \/ ExecutionAgent
    \/ ExecuteQueries
    \/ AnswerSynthesizer
    \/ Insights
    \/ Visualizations
    \/ Guardrails
    \/ Return

Spec == Init /\ [][Next]_vars

\* ------------------------------------------------------------------------
\* Stage-level specification: a stage function is a public function of its
\* module and the graph calls it with whatever record the channels hold, so
\* StageSpec also starts the graph at any node with a record whose optional
\* fields are each absent or present.
\* ------------------------------------------------------------------------
StageCatalog == <<DatasetPool[1], DatasetPool[2]>>

StageSources ==
    [sources |-> <<DataSource(get_all_available_sources[1]),
                   DataSource(get_all_available_sources[2])>>,
     total_sources |-> 2, coverage_score |-> 90, warnings |-> <<>>]

\* a selection of the file-backed dataset alone
StageSingleSource ==
    [sources |-> <<DataSource(get_all_available_sources[1])>>,
     total_sources |-> 1, coverage_score |-> 90, warnings |-> <<>>]

StageQueries ==
    << [step_number |-> 1, description |-> <<"Analysis step">>,
        sql |-> <<"--", "Pseudo query">>, executed |-> FALSE, success |-> None,
        rows_returned |-> None, error_message |-> None],
       [step_number |-> 2, description |-> <<"Revenue", "by", "region">>,
        sql |-> GroupByQuery, executed |-> FALSE, success |-> None,
        rows_returned |-> None, error_message |-> None] >>

\* a plan of three steps: with a template, with none, with an empty one
StagePlan ==
    [steps |-> <<AnalysisStep(1, StepFull), AnalysisStep(2, StepBare),
                 AnalysisStep(3, [description |-> <<"Totals">>,
                                  sql_template |-> Some(<<>>)])>>,
     total_steps |-> 3, estimated_runtime_seconds |-> 30, warnings |-> <<>>]

\* three pending queries: a generated one, a placeholder, a generated one
StageQueryBatch ==
    <<StageQueries[2],
      [StageQueries[1] EXCEPT !.step_number = 2],
      [StageQueries[2] EXCEPT !.step_number = 3, !.description = <<"Totals">>]>>

StageResults ==
    [queries_executed |-> <<>>, row_count |-> 100, execution_time_total_ms |-> 0,
     success |-> TRUE, errors |-> <<>>, result_data |-> EmptyDict]

StageRecords ==
    { [create_initial_state(question, user_id) EXCEPT
          !.interpreted_intent = i,
          !.available_data_sources = d,
          !.analysis_plan = p,
          !.pending_queries = q,
          !.execution_results = r] :
      i \in {None, Some(fallback_intent(question))},
      d \in {None, Some(StageSources), Some(StageSingleSource)},
      p \in {None, Some(fallback_plan(StageSources)), Some(StagePlan)},
      q \in {None, Some(StageQueries), Some(<<StageQueries[2]>>), Some(StageQueryBatch)},
      r \in {None, Some(StageResults)} }

StageInit ==
    /\ question = <<"Show", "Revenue", "by", "Region">>
    /\ user_id \in UserIds
    /\ selected_datasets = None
    /\ configOk = TRUE
    /\ catalog = StageCatalog
    /\ files \in SUBSET CatalogPaths(catalog)
    /\ escaped = None
    /\ result = None
    /\ ran = <<>>
    /\ CatalogAtRest
    /\ \/ /\ pc = "start"
          /\ node = "__start__"
          /\ state = create_initial_state(question, user_id)
       \/ /\ pc = "graph"
          /\ node \in Stages
          /\ state \in StageRecords
          /\ node = "interpreter" => state # create_initial_state(question, user_id)

StageSpec == StageInit /\ [][Next]_vars

\* ------------------------------------------------------------------------
\* data_manager.py: register_dataset / save_catalog and a concurrent
\* load_catalog, step by step at their file operations
\* ------------------------------------------------------------------------
pipeline == <<question, user_id, selected_datasets, configOk, files, pc, node,
              state, escaped, result, ran>>

SchemaSmall == [columns |-> << <<"Region">>, <<"Revenue">> >>, primary_keys |-> <<>>,
                quality_score |-> 90, rows |-> 2]
SchemaLarge == [columns |-> << <<"Region">>, <<"Revenue">>, <<"units">> >>,
                primary_keys |-> <<>>, quality_score |-> 90, rows |-> 12]
SchemaWarehouse == [columns |-> << <<"Churn">> >>, primary_keys |-> <<>>,
                    quality_score |-> 95, rows |-> 50,
                    location |-> <<"analytics.", "churn_fact">>]

\* arguments of register_dataset(name, filename, schema, kind)
Registrations ==
    { [name |-> "sales", filename |-> "sales.csv", schema |-> SchemaSmall, kind |-> "file"],
      [name |-> "sales", filename |-> "sales_v2.csv", schema |-> SchemaLarge, kind |-> "file"],
      [name |-> "orders", filename |-> "orders.csv", schema |-> SchemaSmall, kind |-> "file"],
      [name |-> "churn", filename |-> "", schema |-> SchemaWarehouse, kind |-> "warehouse"] }

\* register_dataset up to the call of save_catalog: load_catalog, build the
\* entry, replace the first entry of that name or append
RegisterDataset ==
    /\ writer.pc = "idle"
    /\ catalog_intact
    /\ Len(registered_calls) < MaxRegistrations
    /\ \E args \in Registrations :
           writer' = [pc |-> "open",
                      catalog |-> register_dataset(list_datasets, args.name, args.filename,
                                                   args.schema, args.kind),
                      args |-> Some(args)]
    /\ UNCHANGED <<pipeline, callers, catalog, catalog_intact, tmp_file, reader, registered_calls, catalog0>>

\* a variant that opens catalog.json itself for writing
SaveCatalogOpenInPlace ==
    /\ writer.pc = "open"
    /\ catalog' = <<>>
    /\ catalog_intact' = FALSE
    /\ writer' = [writer EXCEPT !.pc = "dump"]
    /\ UNCHANGED <<pipeline, callers, tmp_file, reader, registered_calls, catalog0>>

\* save_catalog: open(tmp_path, "w") creates or truncates catalog.tmp
SaveCatalogOpen ==
    /\ writer.pc = "open"
    /\ tmp_file' = Some([datasets |-> <<>>, complete |-> FALSE])
    /\ writer' = [writer EXCEPT !.pc = "dump"]
    /\ UNCHANGED <<pipeline, callers, catalog, catalog_intact, reader, registered_calls, catalog0>>

\* save_catalog: json.dump has written, the text is not all on disk yet
SaveCatalogDump ==
    /\ writer.pc = "dump"
    /\ tmp_file # None
    /\ tmp_file' = Some([datasets |-> writer.catalog, complete |-> FALSE])
    /\ writer' = [writer EXCEPT !.pc = "close"]
    /\ UNCHANGED <<pipeline, callers, catalog, catalog_intact, reader, registered_calls, catalog0>>

\* save_catalog: leaving the with block closes the file
SaveCatalogClose ==
    /\ writer.pc = "close"
    /\ tmp_file # None
    /\ tmp_file' = Some([Val(tmp_file) EXCEPT !.complete = TRUE])
    /\ writer' = [writer EXCEPT !.pc = "replace"]
    /\ UNCHANGED <<pipeline, callers, catalog, catalog_intact, reader, registered_calls, catalog0>>

\* save_catalog: os.replace(tmp_path, CATALOG_PATH); register_dataset returns
SaveCatalogReplace ==
    /\ writer.pc = "replace"
    /\ tmp_file # None
    /\ catalog' = Val(tmp_file).datasets
    /\ catalog_intact' = Val(tmp_file).complete
    /\ tmp_file' = None
    /\ registered_calls' = Append(registered_calls, Val(writer.args))
    /\ writer' = [pc |-> "idle", catalog |-> <<>>, args |-> None]
    /\ UNCHANGED <<pipeline, callers, reader, catalog0>>

\* load_catalog: open(CATALOG_PATH, "r") binds the reader to the file that
\* has that name now (a missing file reads as the empty catalog)
LoadCatalogOpen ==
    /\ reader.pc = "idle"
    /\ reader' = [reader EXCEPT !.pc = "opened",
                                !.handle = Some([datasets |-> catalog,
                                                 intact |-> catalog_intact,
                                                 version |-> Len(registered_calls)])]
    /\ UNCHANGED <<pipeline, callers, catalog, catalog_intact, tmp_file, writer, registered_calls, catalog0>>

\* load_catalog: json.load reads the file it opened; a partly written
\* document raises JSONDecodeError
LoadCatalogRead ==
    /\ reader.pc = "opened"
    /\ reader' = [pc |-> "idle", handle |-> None,
                  seen |-> Some([ok |-> Val(reader.handle).intact,
                                 datasets |-> Val(reader.handle).datasets,
                                 version |-> Val(reader.handle).version,
                                 saving |-> writer.pc])]
    /\ UNCHANGED <<pipeline, callers, catalog, catalog_intact, tmp_file, writer, registered_calls, catalog0>>

CatalogInit ==
    /\ question = <<"Show", "Revenue", "by", "Region">>
    /\ user_id \in UserIds
    /\ selected_datasets = None
    /\ configOk = TRUE
    /\ catalog \in Catalogs
    /\ files = {}
    /\ pc = "start"
    /\ node = "__start__"
    /\ state = create_initial_state(question, user_id)
    /\ escaped = None
    /\ result = None
    /\ ran = <<>>
    /\ CatalogAtRest

CatalogNext ==
    \/ RegisterDataset
    \/ SaveCatalogOpen
    \/ SaveCatalogDump
    \/ SaveCatalogClose
    \/ SaveCatalogReplace
    \/ LoadCatalogOpen
    \/ LoadCatalogRead

CatalogSpec == CatalogInit /\ [][CatalogNext]_vars

\* ------------------------------------------------------------------------
\* data_manager.py: two register_dataset calls for different names running
\* at the same time, step by step at their file operations. Both use the one
\* path catalog.tmp; an open file stays the same file when its name changes.
\* callers[w].file is the name under which the file that call w opened is
\* found now; overlap records that the other call had that file open too.
\* ------------------------------------------------------------------------
Callers == {1, 2}

other(w) == 3 - w

\* register_dataset up to the call of save_catalog; json.load raises on a
\* document that is not whole
RaceRegister(w) ==
    /\ callers[w].pc = "idle"
    /\ \E args \in Registrations :
           /\ callers[other(w)].args # None =>
                  Val(callers[other(w)].args).name # args.name
           /\ callers' = [callers EXCEPT ![w] =
                  IF catalog_intact
                  THEN [@ EXCEPT !.pc = "open",
                                 !.catalog = register_dataset(list_datasets, args.name,
                                                 args.filename, args.schema, args.kind),
                                 !.args = Some(args)]
                  ELSE [@ EXCEPT !.pc = "raised", !.args = Some(args)]]
    /\ UNCHANGED <<pipeline, catalog, catalog_intact, tmp_file, writer, reader,
                   registered_calls, catalog0>>

\* save_catalog: open(tmp_path, "w") creates catalog.tmp or truncates the
\* file that is there, which the other call may be writing
RaceOpen(w) ==
    /\ callers[w].pc = "open"
    /\ tmp_file' = Some([datasets |-> <<>>, complete |-> FALSE])
    /\ LET shared == /\ callers[other(w)].pc \in {"dump", "close"}
                     /\ callers[other(w)].file = "tmp"
       IN  callers' = [callers EXCEPT ![w] = [@ EXCEPT !.pc = "dump", !.file = "tmp",
                                                       !.overlap = shared],
                                      ![other(w)] = [@ EXCEPT !.overlap = @ \/ shared]]
    /\ UNCHANGED <<pipeline, catalog, catalog_intact, writer, reader,
                   registered_calls, catalog0>>

\* save_catalog: json.dump writes into the file the call opened, wherever
\* its name is now
RaceDump(w) ==
    /\ callers[w].pc = "dump"
    /\ IF callers[w].file = "tmp"
       THEN /\ tmp_file' = Some([datasets |-> callers[w].catalog, complete |-> FALSE])
            /\ UNCHANGED <<catalog, catalog_intact>>
       ELSE /\ catalog' = callers[w].catalog
            /\ catalog_intact' = FALSE
            /\ UNCHANGED tmp_file
    /\ callers' = [callers EXCEPT ![w] = [@ EXCEPT !.pc = "close"]]
    /\ UNCHANGED <<pipeline, writer, reader, registered_calls, catalog0>>

\* save_catalog: leaving the with block flushes and closes; when the other
\* call wrote into the same file the text may or may not be a whole document
RaceClose(w) ==
    /\ callers[w].pc = "close"
    /\ \E whole \in (IF callers[w].overlap THEN BOOLEAN ELSE {TRUE}) :
           IF callers[w].file = "tmp"
           THEN /\ tmp_file' = Some([datasets |-> callers[w].catalog, complete |-> whole])
                /\ UNCHANGED <<catalog, catalog_intact>>
           ELSE /\ catalog' = callers[w].catalog
                /\ catalog_intact' = whole
                /\ UNCHANGED tmp_file
    /\ callers' = [callers EXCEPT ![w] = [@ EXCEPT !.pc = "replace"]]
    /\ UNCHANGED <<pipeline, writer, reader, registered_calls, catalog0>>

\* save_catalog: os.replace(tmp_path, CATALOG_PATH) renames whatever file is
\* at catalog.tmp, and raises FileNotFoundError when the other call has
\* renamed it already
RaceReplace(w) ==
    /\ callers[w].pc = "replace"
    /\ IF tmp_file = None
       THEN /\ callers' = [callers EXCEPT ![w] = [@ EXCEPT !.pc = "raised"]]
            /\ UNCHANGED <<catalog, catalog_intact, tmp_file>>
       ELSE /\ catalog' = Val(tmp_file).datasets
            /\ catalog_intact' = Val(tmp_file).complete
            /\ tmp_file' = None
            /\ callers' = [callers EXCEPT
                   ![w] = [@ EXCEPT !.pc = "done", !.file = "catalog"],
                   ![other(w)] = [@ EXCEPT !.file =
                       IF @ = "tmp" /\ callers[other(w)].pc \in {"dump", "close"}
                       THEN "catalog" ELSE @]]
    /\ UNCHANGED <<pipeline, writer, reader, registered_calls, catalog0>>

RaceNext ==
    \E w \in Callers :
        \/ RaceRegister(w)
        \/ RaceOpen(w)
        \/ RaceDump(w)
        \/ RaceClose(w)
        \/ RaceReplace(w)

RaceSpec == CatalogInit /\ [][RaceNext]_vars

\* ------------------------------------------------------------------------
\* Properties
\* ------------------------------------------------------------------------
IsPrefix(a, b) == Len(a) <= Len(b) /\ SubSeq(b, 1, Len(a)) = a

StagesRun == [i \in 1..Len(ran) |-> ran[i].stage]

Finished == pc = "done"

NoResultData(s) ==
    s.execution_results = None \/ Val(s.execution_results).result_data = <<>>

ExecutionFailed(s) ==
    s.execution_results = None \/ ~Val(s.execution_results).success

\* C1: run_analysis always returns a record, and its status is 'completed'
\* or 'failed', whatever the question and whatever the capability does
\* (with a valid configuration).
C1_ReturnsTerminalRecord ==
    (Finished /\ configOk /\ selected_datasets = None) =>
        /\ result # None
        /\ Val(result).status \in {"completed", "failed"}

\* C2: no stage invocation ends with an exception leaving the stage.
C2_NoStageRaises ==
    \A i \in 1..Len(ran) : ~ran[i].raised

\* the capability raised, or its output did not parse into an Intent
interpreter_parse_fails(resp) ==
    LET loaded == json_loads(strip_fences(resp.lines))
    IN  \/ resp.raises
        \/ ~loaded.ok
        \/ ~IsObj(loaded.value)
        \/ Get(loaded.value.obj, "confidence", 80) < 0
        \/ Get(loaded.value.obj, "confidence", 80) > 100

\* C3: whenever the interpreter stage is about to run, every capability
\* behaviour that raises or cannot be parsed makes the stage return a record
\* with the default Intent (isGeneric = the question contains a generic
\* phrase) and a non-null errorState, and the graph routes on to a next stage.
C3_InterpreterFallback ==
    (pc = "graph" /\ node = "interpreter" /\ escaped = None) =>
        \A resp \in InterpreterResponses :
            interpreter_parse_fails(resp) =>
                LET out == question_interpreter_node(state, resp)
                IN  /\ ~out.raised
                    /\ out.state.interpreted_intent =
                           Some([task_type |-> "custom", entities |-> <<>>,
                                 metrics |-> <<>>, time_window |-> "90d",
                                 segments |-> <<>>, confidence |-> 50,
                                 is_generic |-> is_generic_question(state.question)])
                    /\ out.state.error_state # None
                    /\ route_after_interpreter(out.state)
                           \in {"capabilities_helper", "data_advisor"}

\* C4: a run on a question containing a generic phrase executes exactly
\* interpreter then capabilities_helper, returns a record with plan and
\* executionResults null, and its final status is 'completed'.
C4_GenericQuestionPath ==
    (Finished /\ configOk /\ selected_datasets = None
        /\ is_generic_question(question)) =>
        /\ StagesRun = <<"interpreter", "capabilities_helper">>
        /\ result # None
        /\ Val(result).analysis_plan = None
        /\ Val(result).execution_results = None
        /\ Val(result).status = "completed"

\* C5: a run in which insight generation was invoked while the record held
\* no result data ends with status 'failed'.
C5_NoResultDataEndsFailed ==
    (Finished /\ result # None
        /\ (\E i \in 1..Len(ran) : ran[i].stage = "insights")
        /\ NoResultData(Val(result))) =>
        Val(result).status = "failed"

\* C6: once the guardrails stage has returned, the confidence object is
\* non-null.
C6_GuardrailsLeavesConfidence ==
    \A i \in 1..Len(ran) :
        (ran[i].stage = "guardrails" /\ ~ran[i].raised) =>
            state.confidence_assessment # None

\* C7: two different stages never leave the same (non-failed) status, and
\* 'completed' is left only by the stage after which the run ends.
C7_StatusNamesStage ==
    /\ \A i, j \in 1..Len(ran) :
           (ran[i].stage # ran[j].stage /\ ~ran[i].raised /\ ~ran[j].raised
              /\ ran[i].status # "failed" /\ ran[j].status # "failed") =>
               ran[i].status # ran[j].status
    /\ \A i \in 1..Len(ran) :
           (~ran[i].raised /\ ran[i].status = "completed") =>
               (i = Len(ran) /\ node = "__end__")

\* C8: in every step the executionLog before is a prefix of the
\* executionLog after.
C8_LogAppendOnly ==
    [][IsPrefix(state.execution_log, state'.execution_log)]_vars

C8_Witness ==
    /\ Finished
    /\ escaped = None
    /\ Len(state.execution_log) >= 12
    /\ \E i \in 1..Len(state.execution_log) : state.execution_log[i][1] = "execute"
    /\ \E i \in 1..Len(state.execution_log) : state.execution_log[i][1] = "completed"

C10_RoutingAfterExecution ==
    \A i \in 1..Len(ran) :
        ran[i].stage = "answer_synthesizer" =>
            LET rest == SubSeq(StagesRun, i + 1, Len(ran))
                expected == IF ExecutionFailed(state) THEN <<"guardrails">>
                            ELSE <<"insights", "visualizations", "guardrails">>
            IN  /\ IsPrefix(rest, expected)
                /\ node = IF rest = expected THEN "__end__"
                          ELSE expected[Len(rest) + 1]

C10_Witness ==
    /\ Finished
    /\ state.execution_results # None
    /\ ~Val(state.execution_results).success
    /\ Len(ran) >= 2
    /\ ran[Len(ran) - 1].stage = "answer_synthesizer"
    /\ ran[Len(ran)].stage = "guardrails"

\* the capability raised, or returned text with nothing to parse in it
capability_fails(resp) ==
    \/ resp.raises
    \/ (Len(resp.lines) = 1 /\ resp.lines[1].kind = "text")

\* C11: in each stage that calls the capability (interpreter, planner,
\* execution_agent, answer_synthesizer, insights, visualizations, guardrails),
\* whenever the stage is about to make its call, every capability behaviour
\* that raises or cannot be parsed makes the stage return (so the next stage
\* runs) with its output written and errorState non-null.
C11_FallbackInEveryStage ==
    (pc = "graph" /\ escaped = None) =>
        /\ node = "interpreter" =>
               \A resp \in InterpreterResponses :
                   capability_fails(resp) =>
                       LET out == question_interpreter_node(state, resp)
                       IN  /\ ~out.raised
                           /\ out.state.interpreted_intent # None
                           /\ out.state.error_state # None
        /\ (node = "planner" /\ state.interpreted_intent # None
              /\ state.available_data_sources # None) =>
               \A resp \in PlannerResponses :
                   capability_fails(resp) =>
                       LET out == analysis_planner_node(state, resp)
                       IN  /\ ~out.raised
                           /\ out.state.analysis_plan # None
                           /\ out.state.error_state # None
        /\ (node = "execution_agent" /\ NumSteps(state) > 0) =>
               \A resps \in [1..NumSteps(state) -> SqlResponses] :
                   (\E i \in DOMAIN resps : resps[i].raises) =>
                       LET out == execution_agent_node(state, resps)
                       IN  /\ ~out.raised
                           /\ out.state.pending_queries # None
                           /\ out.state.error_state # None
        /\ (node = "answer_synthesizer" /\ ~NoResultData(state)) =>
               \A resp \in AnswerResponses :
                   resp.raises =>
                       LET out == answer_synthesizer_node(state, resp)
                       IN  /\ ~out.raised
                           /\ out.state.direct_answer # None
                           /\ out.state.error_state # None
        /\ (node = "insights" /\ ~NoResultData(state)) =>
               \A resp \in InsightResponses :
                   capability_fails(resp) =>
                       LET out == insight_generator_node(state, resp)
                       IN  /\ ~out.raised
                           /\ out.state.error_state # None
        /\ (node = "visualizations" /\ ~NoResultData(state)
              /\ state.insights # <<>>) =>
               \A resps \in [1..Min(3, Len(state.insights)) -> VizResponses] :
                   (\E i \in DOMAIN resps : capability_fails(resps[i])) =>
                       LET out == visualization_agent_node(state, resps)
                       IN  /\ ~out.raised
                           /\ out.state.error_state # None
        /\ (node = "guardrails" /\ state.execution_results # None) =>
               \A resp \in GuardrailResponses :
                   capability_fails(resp) =>
                       LET out == confidence_guardrails_node(state, resp)
                       IN  /\ ~out.raised
                           /\ out.state.confidence_assessment # None
                           /\ out.state.error_state # None

\* the planner's capability call raised, or its text is not a JSON object
planner_parse_fails(resp) ==
    LET loaded == json_loads(strip_fences(resp.lines))
    IN  resp.raises \/ ~loaded.ok \/ ~IsObj(loaded.value)

\* C12: whenever the planner is about to call the capability (intent and
\* data sources present), every behaviour that raises or cannot be parsed
\* leaves a plan of exactly one step, numbered 1, whose required_tables are
\* the names of all selected sources, with total_steps 1,
\* estimated_runtime_seconds 10 and a warning about the error, and the status
\* is not 'failed'.
C12_FallbackPlan ==
    (pc = "graph" /\ escaped = None /\ node = "planner"
        /\ state.interpreted_intent # None
        /\ state.available_data_sources # None) =>
        \A resp \in PlannerResponses :
            planner_parse_fails(resp) =>
                LET out == analysis_planner_node(state, resp)
                    selected == Val(state.available_data_sources).sources
                IN  /\ ~out.raised
                    /\ out.state.analysis_plan # None
                    /\ LET plan == Val(out.state.analysis_plan)
                       IN  /\ Len(plan.steps) = 1
                           /\ plan.steps[1].step_number = 1
                           /\ plan.steps[1].required_tables =
                                  [i \in 1..Len(selected) |-> selected[i].name]
                           /\ plan.total_steps = 1
                           /\ plan.estimated_runtime_seconds = 10
                           /\ \E i \in 1..Len(plan.warnings) :
                                  plan.warnings[i] =
                                      "Planner JSON parse error, using fallback plan"
                    /\ out.state.status # "failed"

\* the planner has just fallen back on a selection of two sources
C12_Witness ==
    /\ pc = "graph"
    /\ node = "execution_agent"
    /\ ran[Len(ran)].stage = "planner"
    /\ state.status = "planning"
    /\ state.error_state = Some("Planning failed to parse JSON cleanly")
    /\ state.analysis_plan # None
    /\ Val(state.analysis_plan).estimated_runtime_seconds = 10
    /\ Len(Val(state.analysis_plan).steps[1].required_tables) = 2

\* C13: whenever guardrails is about to run with executionResults present,
\* a raising capability still leaves a complete ConfidenceMetrics with
\* overall_confidence 0.5, sample_size_adequate = (row_count >= the
\* configured minimum) and the caveats computed before the call retained,
\* and the status is 'completed'.
C13_GuardrailsFallback ==
    (pc = "graph" /\ escaped = None /\ node = "guardrails"
        /\ state.execution_results # None) =>
        \A resp \in GuardrailResponses :
            resp.raises =>
                LET out == confidence_guardrails_node(state, resp)
                    row_count == Val(state.execution_results).row_count
                IN  /\ ~out.raised
                    /\ out.state.confidence_assessment # None
                    /\ LET m == Val(out.state.confidence_assessment)
                       IN  /\ DOMAIN m = {"overall_confidence", "data_freshness",
                                          "sample_size_adequate", "completeness_score",
                                          "caveats", "data_quality_issues",
                                          "recommendations"}
                           /\ m.overall_confidence = 50
                           /\ m.sample_size_adequate = (row_count >= MIN_DATA_POINTS)
                           /\ \E i \in 1..Len(m.caveats) :
                                  m.caveats[i] = "Analysis based on data from last 24 hours"
                           /\ row_count < MIN_DATA_POINTS =>
                                  \E i \in 1..Len(m.caveats) :
                                      m.caveats[i] = "Limited sample size. Results may be noisy."
                    /\ out.state.status = "completed"

\* a run over few rows has ended with the guardrails fallback
C13_Witness ==
    /\ Finished
    /\ result # None
    /\ ran[Len(ran)].stage = "guardrails"
    /\ Val(result).status = "completed"
    /\ Val(result).execution_results # None
    /\ Val(Val(result).execution_results).row_count < MIN_DATA_POINTS
    /\ Val(result).confidence_assessment # None
    /\ Val(Val(result).confidence_assessment).overall_confidence = 50
    /\ Val(Val(result).confidence_assessment).completeness_score = 70

\* C18: whenever guardrails is about to run with executionResults present,
\* whatever the capability does (normal path or fallback path): when
\* row_count is below the configured minimum the confidence object has the
\* limited-sample-size caveat, 'insufficient_sample_size' among its
\* data_quality_issues and sample_size_adequate false; otherwise it has
\* neither entry and sample_size_adequate is true.
C18_LowSampleCaveat ==
    (pc = "graph" /\ escaped = None /\ node = "guardrails"
        /\ state.execution_results # None) =>
        \A resp \in GuardrailResponses :
            LET out == confidence_guardrails_node(state, resp)
                row_count == Val(state.execution_results).row_count
                m == Val(out.state.confidence_assessment)
                limited == \E i \in 1..Len(m.caveats) :
                               m.caveats[i] = "Limited sample size. Results may be noisy."
                insufficient == \E i \in 1..Len(m.data_quality_issues) :
                                    m.data_quality_issues[i] = "insufficient_sample_size"
            IN  /\ out.state.confidence_assessment # None
                /\ IF row_count < MIN_DATA_POINTS
                   THEN limited /\ insufficient /\ ~m.sample_size_adequate
                   ELSE ~limited /\ ~insufficient /\ m.sample_size_adequate

\* a run over few rows has ended with a confidence object assessed by the
\* capability and carrying the sample-size entries
C18_Witness ==
    /\ Finished
    /\ result # None
    /\ ran[Len(ran)].stage = "guardrails"
    /\ Val(result).execution_results # None
    /\ Val(Val(result).execution_results).row_count < MIN_DATA_POINTS
    /\ Val(result).confidence_assessment # None
    /\ Val(Val(result).confidence_assessment).overall_confidence = 85
    /\ ~Val(Val(result).confidence_assessment).sample_size_adequate
    /\ Val(Val(result).confidence_assessment).data_quality_issues
           = <<"insufficient_sample_size">>

\* the record holds exactly one selected source, file-backed and holding 2
\* rows, and exactly one generated query that the engine will run
one_source_one_query(s) ==
    /\ s.available_data_sources # None
    /\ Len(Val(s.available_data_sources).sources) = 1
    /\ LET src == Val(s.available_data_sources).sources[1]
           loaded == _load_dataframe_from_table_name(src.table_name)
       IN  /\ _is_file_backed_table(src.table_name)
           /\ loaded.ok
           /\ loaded.df.rows = 2
    /\ s.pending_queries # None
    /\ Len(Val(s.pending_queries)) = 1
    /\ Val(s.pending_queries)[1].sql # <<>>
    /\ Val(s.pending_queries)[1].sql[1] # "--"

\* C14: when execute_queries runs on one file-backed source of 2 rows with
\* one generated query that the engine executes returning 2 rows,
\* result_data["query_results"] holds one entry with 2 data rows and row
\* count 2, and ExecutionResults.row_count is 2.
C14_QueryRoundTrip ==
    (pc = "graph" /\ escaped = None /\ node = "execute_queries"
        /\ one_source_one_query(state)) =>
        LET engine == <<[ok |-> TRUE, rows |-> 2, error |-> ""]>>
            out == execute_queries_node(state, engine)
            results == Val(out.state.execution_results)
        IN  /\ ~out.raised
            /\ out.state.execution_results # None
            /\ dict_has(results.result_data, "query_results")
            /\ LET query_results == dict_get(results.result_data, "query_results")
               IN  /\ Len(query_results) = 1
                   /\ query_results[1].value.data = 2
                   /\ query_results[1].value.row_count = 2
            /\ results.row_count = 2

\* C15: a run called with a non-empty selected_datasets list runs data-source
\* selection, and the sources it selects are exactly the catalog datasets
\* whose names are in the list; when no listed name is in the catalog it
\* selects by auto-detection and records a warning.
C15_SelectedDatasets ==
    (Finished /\ configOk /\ selected_datasets # None
        /\ Val(selected_datasets) # <<>>) =>
        LET listed(name) == \E i \in 1..Len(Val(selected_datasets)) :
                                Val(selected_datasets)[i] = name
            present == SelectSeq(catalog, LAMBDA ds : listed(ds.name))
        IN  /\ \E i \in 1..Len(ran) : ran[i].stage = "data_advisor" /\ ~ran[i].raised
            /\ result # None
            /\ Val(result).available_data_sources # None
            /\ LET chosen == Val(Val(result).available_data_sources)
               IN  IF present # <<>>
                   THEN [i \in 1..Len(chosen.sources) |-> chosen.sources[i].name]
                            = [i \in 1..Len(present) |-> present[i].name]
                   ELSE chosen.warnings # <<>>

\* C16: between register_dataset calls (none in progress), the catalog holds
\* at most one entry per name; the entry of a registered name carries the
\* name, filename, kind and schema of the most recent registration of that
\* name; entries of names never registered are those of the starting
\* catalog; and the names are those of the starting catalog in their order,
\* followed by the new names in the order they were first registered.
C16_RegisterIsUpsert ==
    writer.pc = "idle" =>
        LET names(c) == [i \in 1..Len(c) |-> c[i].name]
            calls(name) == {k \in 1..Len(registered_calls) :
                               registered_calls[k].name = name}
            latest(name) == registered_calls[
                CHOOSE k \in calls(name) : \A j \in calls(name) : j <= k]
            known(name) == \E i \in 1..Len(catalog0) : catalog0[i].name = name
            firsts == SelectSeq([k \in 1..Len(registered_calls) |-> k],
                                LAMBDA k : /\ ~known(registered_calls[k].name)
                                           /\ \A j \in 1..(k - 1) :
                                                  registered_calls[j].name
                                                      # registered_calls[k].name)
        IN  /\ \A i, j \in 1..Len(catalog) :
                   catalog[i].name = catalog[j].name => i = j
            /\ \A i \in 1..Len(catalog) :
                   IF calls(catalog[i].name) # {}
                   THEN LET args == latest(catalog[i].name)
                        IN  /\ catalog[i].filename = args.filename
                            /\ catalog[i].kind = args.kind
                            /\ catalog[i].schema = args.schema
                   ELSE \E k \in 1..Len(catalog0) : catalog0[k] = catalog[i]
            /\ names(catalog) =
                   names(catalog0)
                   \o [k \in 1..Len(firsts) |-> registered_calls[firsts[k]].name]

\* three registrations are done: a name of the starting catalog was
\* registered twice with different arguments and a new name was added
C16_Witness ==
    /\ writer.pc = "idle"
    /\ Len(registered_calls) = 3
    /\ Len(catalog0) = 2
    /\ Len(catalog) = 3
    /\ registered_calls[1].name = catalog0[1].name
    /\ registered_calls[3].name = registered_calls[1].name
    /\ registered_calls[3] # registered_calls[1]
    /\ registered_calls[2].name = catalog[3].name

\* the catalog after the first k completed registrations
RECURSIVE catalog_version(_)
catalog_version(k) ==
    IF k = 0 THEN catalog0
    ELSE register_dataset(catalog_version(k - 1), registered_calls[k].name,
                          registered_calls[k].filename, registered_calls[k].schema,
                          registered_calls[k].kind)

\* C17: whatever load_catalog has read, at whatever point of a save_catalog
\* in progress it opened and read the file, is a whole document: the catalog
\* as it was before that save or as it is after it, never a partly written
\* one; and catalog.json itself is never partly written.
C17_ReaderSeesWholeCatalog ==
    /\ catalog_intact
    /\ reader.seen # None =>
           /\ Val(reader.seen).ok
           /\ Val(reader.seen).datasets = catalog_version(Val(reader.seen).version)

\* load_catalog returned the previous catalog while save_catalog had written
\* only part of the new document to catalog.tmp
C17_Witness ==
    /\ writer.pc = "close"
    /\ tmp_file # None
    /\ ~Val(tmp_file).complete
    /\ reader.seen # None
    /\ Val(reader.seen).saving = "close"
    /\ Val(reader.seen).datasets = catalog
    /\ Val(reader.seen).datasets # writer.catalog

\* C19: for one question and one capability response, intent interpretation
\* gives the same outcome and the same Intent whether it runs on the initial
\* record, on the record the graph holds now, or a second time on the record
\* its own first run left.
C19_InterpretationDeterministic ==
    \A resp \in InterpreterResponses :
        LET fresh == question_interpreter_node(
                         create_initial_state(state.question, state.user_id), resp)
            here == question_interpreter_node(state, resp)
            again == question_interpreter_node(here.state, resp)
        IN  /\ fresh.raised = here.raised
            /\ here.raised = again.raised
            /\ ~fresh.raised =>
                   /\ fresh.state.interpreted_intent # None
                   /\ here.state.interpreted_intent = fresh.state.interpreted_intent
                   /\ again.state.interpreted_intent = fresh.state.interpreted_intent

\* the interpreter has run and later stages have changed the record: it
\* holds a parsed intent, a log and an error note
C19_Witness ==
    /\ pc = "graph"
    /\ Len(ran) >= 2
    /\ ran[1].stage = "interpreter"
    /\ state.interpreted_intent # None
    /\ Val(state.interpreted_intent).entities # <<>>
    /\ ~Val(state.interpreted_intent).is_generic
    /\ state.error_state # None
    /\ Len(state.execution_log) >= 2

\* C20: the record create_initial_state returns, as run_analysis holds it
\* before the graph starts, has the given question and user id, status
\* 'created', error_state null, every optional stage output null, every list
\* field present and empty (pending_queries included), and plan_approved
\* false.
C20_InitialRecord ==
    pc = "start" =>
        LET record == create_initial_state(question, user_id)
        IN  /\ state = record
            /\ record.question = question
            /\ record.user_id = user_id
            /\ record.status = "created"
            /\ record.error_state = None
            /\ record.interpreted_intent = None
            /\ record.available_data_sources = None
            /\ record.analysis_plan = None
            /\ record.execution_results = None
            /\ record.direct_answer = None
            /\ record.confidence_assessment = None
            /\ record.pending_queries = Some(<<>>)
            /\ record.insights = <<>>
            /\ record.anomalies = <<>>
            /\ record.visualizations = <<>>
            /\ record.execution_log = <<>>
            /\ record.execution_errors = <<>>
            /\ record.plan_approved = FALSE

\* ------------------------------------------------------------------------
\* Stage outcomes and field ownership
\* ------------------------------------------------------------------------
\* every record a stage function can return (or raise from) on record s, over
\* the behaviours of the capability and of the engine
stage_outcomes(name, s) ==
    CASE name = "interpreter" ->
             {question_interpreter_node(s, resp) : resp \in InterpreterResponses}
      [] name = "capabilities_helper" -> {capabilities_helper_node(s)}
      [] name = "data_advisor" -> {data_advisor_node(s)}
      [] name = "planner" ->
             {analysis_planner_node(s, resp) : resp \in PlannerResponses}
      [] name = "execution_agent" ->
             {execution_agent_node(s, resps) :
                  resps \in [1..NumSteps(s) -> SqlResponses]}
      [] name = "execute_queries" ->
             {execute_queries_node(s, engine) :
                  engine \in [1..NumQueries(s) -> EngineOutcomes]}
      [] name = "answer_synthesizer" ->
             {answer_synthesizer_node(s, resp) : resp \in AnswerResponses}
      [] name = "insights" ->
             {insight_generator_node(s, resp) : resp \in InsightResponses}
      [] name = "visualizations" ->
             {visualization_agent_node(s, resps) :
                  resps \in [1..Min(3, Len(s.insights)) -> VizResponses]}
      [] name = "guardrails" ->
             {confidence_guardrails_node(s, resp) : resp \in GuardrailResponses}

\* the keys whose value a stage left different from what it received
written(before, after) == {f \in DOMAIN before : after[f] # before[f]}

\* the fields every stage may write through log_state_transition and its
\* error notes
tracking_fields == {"status", "error_state", "execution_log"}

\* the output field(s) each stage assigns
owned_fields(name) ==
    CASE name = "interpreter" -> {"interpreted_intent"}
      [] name = "capabilities_helper" -> {}
      [] name = "data_advisor" -> {"available_data_sources"}
      [] name = "planner" -> {"analysis_plan"}
      [] name = "execution_agent" -> {"pending_queries"}
      [] name = "execute_queries" ->
             {"pending_queries", "execution_results", "execution_errors"}
      [] name = "answer_synthesizer" -> {"direct_answer"}
      [] name = "insights" -> {"insights", "anomalies"}
      [] name = "visualizations" -> {"visualizations"}
      [] name = "guardrails" -> {"confidence_assessment"}

\* C21: whenever a stage is about to run, whatever the capability and the
\* engine do, the fields the stage leaves changed are among the tracking
\* fields (status, error_state, execution_log) and its own output fields:
\* interpreter the intent, data_advisor the data sources, planner the plan,
\* execution_agent the pending queries, execute_queries the pending queries,
\* execution_results and execution_errors, answer_synthesizer the direct
\* answer, insights the insights and anomalies, visualizations the
\* visualizations, guardrails the confidence; question and user_id never
\* change.
C21_SingleWriterPerField ==
    (pc = "graph" /\ escaped = None /\ node \in Stages) =>
        \A out \in stage_outcomes(node, state) :
            /\ written(state, out.state) \subseteq (tracking_fields \cup owned_fields(node))
            /\ out.state.question = state.question
            /\ out.state.user_id = state.user_id

\* create_graph: the analysis path, in the order of its edges
graph_order ==
    <<"interpreter", "data_advisor", "planner", "execution_agent",
      "execute_queries", "answer_synthesizer", "insights", "visualizations",
      "guardrails">>

\* create_graph: the pairs (node, node that may run next)
graph_edges ==
    { <<"interpreter", "capabilities_helper">>,
      <<"interpreter", "data_advisor">>,
      <<"data_advisor", "planner">>,
      <<"planner", "execution_agent">>,
      <<"execution_agent", "execute_queries">>,
      <<"execute_queries", "answer_synthesizer">>,
      <<"answer_synthesizer", "insights">>,
      <<"answer_synthesizer", "guardrails">>,
      <<"insights", "visualizations">>,
      <<"visualizations", "guardrails">> }

\* C22: in every run the first stage is the interpreter, and each later
\* stage starts only after the stage before it has returned and is the one
\* an edge of the graph leads to from that stage; so the stages that ran
\* appear in the order interpreter, data_advisor, planner, execution_agent,
\* execute_queries, answer_synthesizer, insights, visualizations, guardrails,
\* each at most once, and answer_synthesizer is what runs right after
\* execute_queries and right before the routed stage (insights or
\* guardrails), also when execution failed.
C22_StagesInGraphOrder ==
    /\ ran # <<>> => ran[1].stage = "interpreter"
    /\ \A i \in 1..(Len(ran) - 1) :
           /\ ~ran[i].raised
           /\ <<ran[i].stage, ran[i + 1].stage>> \in graph_edges
    /\ (pc = "graph" /\ escaped = None /\ ran # <<>> /\ node # "__end__") =>
           <<ran[Len(ran)].stage, node>> \in graph_edges

\* a run went through all nine stages of the analysis path
C22_Witness ==
    /\ Finished
    /\ escaped = None
    /\ StagesRun = graph_order

\* C23: once a stage of a run has returned with status 'failed', every later
\* stage of that run leaves status 'failed', and the record the run returns
\* has status 'failed'.
C23_FailedIsSticky ==
    \A i \in 1..Len(ran) :
        (~ran[i].raised /\ ran[i].status = "failed") =>
            /\ \A j \in (i + 1)..Len(ran) : ran[j].status = "failed"
            /\ (Finished /\ result # None) => Val(result).status = "failed"

\* C24: whenever execution_agent is about to run on a plan with steps,
\* whatever the capability does on each step, the stage returns one pending
\* query per step, in step order; for every step on which the capability
\* raised the query text is the step's template when it is present and
\* non-empty, and otherwise a text whose first symbol is the comment marker
\* '--'.
C24_GenerationFallback ==
    (pc = "graph" /\ escaped = None /\ node = "execution_agent"
        /\ NumSteps(state) > 0) =>
        \A resps \in [1..NumSteps(state) -> SqlResponses] :
            LET out == execution_agent_node(state, resps)
                steps == Val(state.analysis_plan).steps
            IN  /\ ~out.raised
                /\ out.state.pending_queries # None
                /\ LET queries == Val(out.state.pending_queries)
                   IN  /\ Len(queries) = Len(steps)
                       /\ \A i \in 1..Len(steps) :
                              /\ queries[i].step_number = steps[i].step_number
                              /\ ~queries[i].executed
                              /\ resps[i].raises =>
                                     IF steps[i].sql_template # None
                                          /\ Val(steps[i].sql_template) # <<>>
                                     THEN queries[i].sql = Val(steps[i].sql_template)
                                     ELSE /\ queries[i].sql # <<>>
                                          /\ queries[i].sql[1] = "--"

\* execution_agent has returned on a plan that has a step with a template,
\* a step with none and a step with an empty one, and a capability that
\* raises on every step gives the template for the first and placeholders
\* for the other two
C24_Witness ==
    /\ pc = "graph"
    /\ node = "execute_queries"
    /\ ran # <<>>
    /\ ran[Len(ran)].stage = "execution_agent"
    /\ ran[Len(ran)].status = "planning"
    /\ NumSteps(state) = 3
    /\ LET steps == Val(state.analysis_plan).steps
           out == execution_agent_node(state, [i \in 1..3 |-> Raises])
           queries == Val(out.state.pending_queries)
       IN  /\ steps[1].sql_template # None /\ Val(steps[1].sql_template) # <<>>
           /\ steps[2].sql_template = None
           /\ steps[3].sql_template = Some(<<>>)
           /\ queries[1].sql = Val(steps[1].sql_template)
           /\ queries[2].sql[1] = "--"
           /\ queries[3].sql[1] = "--"

\* the text of a pending query is empty or a placeholder comment
is_inert(q) == q.sql = <<>> \/ q.sql[1] = "--"

\* the record holds data sources of which at least one is file-backed
has_file_backed_source(s) ==
    /\ s.available_data_sources # None
    /\ \E i \in 1..Len(Val(s.available_data_sources).sources) :
           _is_file_backed_table(Val(s.available_data_sources).sources[i].table_name)

\* C25: whenever execute_queries is about to run with at least one
\* file-backed source selected, whatever the engine would do, every pending
\* query whose text is empty or a placeholder comment ends the stage with
\* executed = true, success = false, the error message 'No valid SQL
\* generated' and no rows returned (the engine was not run on it).
C25_InertQueryMarkedFailed ==
    (pc = "graph" /\ escaped = None /\ node = "execute_queries"
        /\ has_file_backed_source(state) /\ state.pending_queries # None) =>
        \A engine \in [1..NumQueries(state) -> EngineOutcomes] :
            LET out == execute_queries_node(state, engine)
                before == Val(state.pending_queries)
                after == Val(out.state.execution_results).queries_executed
            IN  /\ ~out.raised
                /\ out.state.execution_results # None
                /\ Len(after) = Len(before)
                /\ \A i \in 1..Len(before) :
                       is_inert(before[i]) =>
                           /\ after[i].executed
                           /\ after[i].success = Some(FALSE)
                           /\ after[i].error_message = Some("No valid SQL generated")
                           /\ after[i].rows_returned = None

\* at least one file-backed source of the record loads, so the engine runs
some_table_registered(s) ==
    /\ s.available_data_sources # None
    /\ \E i \in 1..Len(Val(s.available_data_sources).sources) :
           LET src == Val(s.available_data_sources).sources[i]
           IN  /\ _is_file_backed_table(src.table_name)
               /\ _load_dataframe_from_table_name(src.table_name).ok

\* C26: whenever execute_queries is about to run the engine on the pending
\* queries, for every engine behaviour the stage returns, and every query
\* the engine rejects ends with executed = true, success = false and
\* error_message equal to the engine's error text, while every query after
\* it is still processed: marked executed, with the engine's row count when
\* the engine accepts it, the engine's error when it rejects it, and the
\* fixed message when its text is inert.
C26_EngineErrorRecorded ==
    (pc = "graph" /\ escaped = None /\ node = "execute_queries"
        /\ some_table_registered(state) /\ state.pending_queries # None) =>
        \A engine \in [1..NumQueries(state) -> EngineOutcomes] :
            LET out == execute_queries_node(state, engine)
                before == Val(state.pending_queries)
                after == Val(out.state.execution_results).queries_executed
                rejected(i) == ~is_inert(before[i]) /\ ~engine[i].ok
            IN  /\ ~out.raised
                /\ out.state.execution_results # None
                /\ Len(after) = Len(before)
                /\ \A i \in 1..Len(before) :
                       rejected(i) =>
                           /\ after[i].executed
                           /\ after[i].success = Some(FALSE)
                           /\ after[i].error_message = Some(engine[i].error)
                           /\ \A j \in (i + 1)..Len(before) :
                                  /\ after[j].executed
                                  /\ IF is_inert(before[j])
                                     THEN after[j].error_message = Some("No valid SQL generated")
                                     ELSE IF engine[j].ok
                                     THEN /\ after[j].success = Some(TRUE)
                                          /\ after[j].rows_returned = Some(engine[j].rows)
                                     ELSE after[j].error_message = Some(engine[j].error)

\* execute_queries has returned: the engine rejected the first query, and
\* the placeholder and the accepted query after it were processed
C26_Witness ==
    /\ pc = "graph"
    /\ node = "answer_synthesizer"
    /\ ran # <<>>
    /\ ran[Len(ran)].stage = "execute_queries"
    /\ state.execution_results # None
    /\ LET after == Val(state.execution_results).queries_executed
       IN  /\ Len(after) = 3
           /\ after[1].executed
           /\ after[1].success = Some(FALSE)
           /\ after[1].error_message = Some("Binder Error")
           /\ after[2].error_message = Some("No valid SQL generated")
           /\ after[3].success = Some(TRUE)
           /\ after[3].rows_returned = Some(60)

\* C27: whenever execute_queries is about to run with data sources selected,
\* for every engine behaviour the ExecutionResults it writes has success =
\* (errors is empty) and the record's execution_errors equals its errors;
\* the stage sets error_state when errors is non-empty and leaves error_state
\* as it was when errors is empty.
C27_SuccessIffNoErrors ==
    (pc = "graph" /\ escaped = None /\ node = "execute_queries"
        /\ state.available_data_sources # None
        /\ Val(state.available_data_sources).sources # <<>>) =>
        \A engine \in [1..NumQueries(state) -> EngineOutcomes] :
            LET out == execute_queries_node(state, engine)
                results == Val(out.state.execution_results)
            IN  /\ ~out.raised
                /\ out.state.execution_results # None
                /\ results.success = (results.errors = <<>>)
                /\ out.state.execution_errors = results.errors
                /\ IF results.errors # <<>>
                   THEN /\ out.state.error_state # None
                        /\ out.state.error_state # state.error_state
                   ELSE out.state.error_state = state.error_state

\* execute_queries has returned with a source whose file could not be
\* loaded: the results are unsuccessful and carry the error
C27_Witness ==
    /\ pc = "graph"
    /\ node = "answer_synthesizer"
    /\ ran # <<>>
    /\ ran[Len(ran)].stage = "execute_queries"
    /\ state.execution_results # None
    /\ ~Val(state.execution_results).success
    /\ Val(state.execution_results).errors # <<>>
    /\ state.execution_errors = Val(state.execution_results).errors
    /\ state.error_state = Some("Failed to analyze dataset")

\* the record holds data sources of which at least one is not file-backed
has_non_file_source(s) ==
    /\ s.available_data_sources # None
    /\ \E i \in 1..Len(Val(s.available_data_sources).sources) :
           ~_is_file_backed_table(Val(s.available_data_sources).sources[i].table_name)

\* C28: whenever execute_queries is about to run with data sources and
\* pending queries, for every engine behaviour: a query the file-backed path
\* executed keeps the success, rows_returned and error_message that path gave
\* it (the engine's rows, the engine's error, or the fixed message of an
\* inert text); a query that path did not execute ends executed = true,
\* success = true with rows_returned 100 when a non-file source is selected,
\* and is left exactly as it was when none is.
C28_SimulationOnlyForPending ==
    (pc = "graph" /\ escaped = None /\ node = "execute_queries"
        /\ state.available_data_sources # None
        /\ Val(state.available_data_sources).sources # <<>>
        /\ state.pending_queries # None) =>
        \A engine \in [1..NumQueries(state) -> EngineOutcomes] :
            LET out == execute_queries_node(state, engine)
                before == Val(state.pending_queries)
                after == Val(out.state.execution_results).queries_executed
            IN  /\ out.state.execution_results # None
                /\ Len(after) = Len(before)
                /\ \A i \in 1..Len(before) :
                       IF some_table_registered(state)
                       THEN /\ after[i].executed
                            /\ after[i].success =
                                   Some(~is_inert(before[i]) /\ engine[i].ok)
                            /\ after[i].rows_returned =
                                   IF ~is_inert(before[i]) /\ engine[i].ok
                                   THEN Some(engine[i].rows) ELSE None
                            /\ after[i].error_message =
                                   IF is_inert(before[i])
                                   THEN Some("No valid SQL generated")
                                   ELSE IF engine[i].ok THEN None
                                   ELSE Some(engine[i].error)
                       ELSE IF has_non_file_source(state)
                       THEN /\ after[i].executed
                            /\ after[i].success = Some(TRUE)
                            /\ after[i].rows_returned = Some(100)
                            /\ after[i].error_message = None
                       ELSE after[i] = before[i]

\* execute_queries has returned on a warehouse source and a file-backed
\* source whose file is missing: the file-backed path executed nothing and
\* the simulation marked both pending queries
C28_Witness ==
    /\ pc = "graph"
    /\ node = "answer_synthesizer"
    /\ ran # <<>>
    /\ ran[Len(ran)].stage = "execute_queries"
    /\ has_non_file_source(state)
    /\ has_file_backed_source(state)
    /\ ~some_table_registered(state)
    /\ state.execution_results # None
    /\ LET after == Val(state.execution_results).queries_executed
       IN  /\ Len(after) = 2
           /\ \A i \in 1..2 :
                  /\ after[i].executed
                  /\ after[i].success = Some(TRUE)
                  /\ after[i].rows_returned = Some(100)
                  /\ after[i].error_message = None

\* C29: whenever execute_queries is about to run with data sources selected,
\* for every engine behaviour and every file-backed source: when its file
\* loads, result_data holds the analysis of that file under the source name
\* and no error names the source; when it does not load, exactly one error
\* string names the source and result_data has no entry for it; and the
\* error list holds nothing else.
C29_DescriptivePassContinues ==
    (pc = "graph" /\ escaped = None /\ node = "execute_queries"
        /\ state.available_data_sources # None
        /\ Val(state.available_data_sources).sources # <<>>) =>
        \A engine \in [1..NumQueries(state) -> EngineOutcomes] :
            LET out == execute_queries_node(state, engine)
                results == Val(out.state.execution_results)
                sources == Val(state.available_data_sources).sources
                file_backed == {i \in 1..Len(sources) :
                                   _is_file_backed_table(sources[i].table_name)}
                naming(name) == {k \in 1..Len(results.errors) :
                                    results.errors[k][2] = name}
                loads(i) == _load_dataframe_from_table_name(sources[i].table_name)
            IN  /\ ~out.raised
                /\ out.state.execution_results # None
                /\ \A i \in file_backed :
                       IF loads(i).ok
                       THEN /\ dict_has(results.result_data, sources[i].name)
                            /\ dict_get(results.result_data, sources[i].name)
                                   = _analyze_dataframe(loads(i).df)
                            /\ naming(sources[i].name) = {}
                       ELSE /\ Cardinality(naming(sources[i].name)) = 1
                            /\ ~dict_has(results.result_data, sources[i].name)
                /\ Len(results.errors) =
                       Cardinality({i \in file_backed : ~loads(i).ok})

\* execute_queries has returned on two file-backed sources: the first did
\* not load and is named by the one error, the second was analysed
C29_Witness ==
    /\ pc = "graph"
    /\ node = "answer_synthesizer"
    /\ ran # <<>>
    /\ ran[Len(ran)].stage = "execute_queries"
    /\ state.available_data_sources # None
    /\ state.execution_results # None
    /\ LET sources == Val(state.available_data_sources).sources
           results == Val(state.execution_results)
       IN  /\ Len(sources) = 2
           /\ _is_file_backed_table(sources[1].table_name)
           /\ _is_file_backed_table(sources[2].table_name)
           /\ results.errors = << <<"Failed to analyze dataset", sources[1].name>> >>
           /\ ~dict_has(results.result_data, sources[1].name)
           /\ dict_has(results.result_data, sources[2].name)

\* C30: whenever execute_queries is about to run with data sources selected,
\* whatever mix of file-backed and non-file sources they are, whichever
\* files load and whatever the engine does, every record of
\* queries_executed in the ExecutionResults it writes has executed = true
\* and a success value that is not null.
C30_NoQueryLeftPending ==
    (pc = "graph" /\ escaped = None /\ node = "execute_queries"
        /\ state.available_data_sources # None
        /\ Val(state.available_data_sources).sources # <<>>) =>
        \A engine \in [1..NumQueries(state) -> EngineOutcomes] :
            LET out == execute_queries_node(state, engine)
                after == Val(out.state.execution_results).queries_executed
            IN  /\ out.state.execution_results # None
                /\ \A i \in 1..Len(after) :
                       /\ after[i].executed
                       /\ after[i].success # None

\* C31: in every run, once execute_queries has written ExecutionResults on
\* a record that has a plan, queries_executed holds one record per plan
\* step, in plan order and with the step's number (the records the
\* execution_agent stage of the run produced, not an empty or fresh list).
C31_ExecutesGeneratedQueries ==
    \A k \in 1..Len(ran) :
        (ran[k].stage = "execute_queries" /\ ~ran[k].raised
            /\ state.execution_results # None /\ state.analysis_plan # None) =>
            LET steps == Val(state.analysis_plan).steps
                executed == Val(state.execution_results).queries_executed
            IN  /\ Len(executed) = Len(steps)
                /\ \A i \in 1..Len(steps) :
                       executed[i].step_number = steps[i].step_number

\* C32: when two register_dataset calls for different names, interleaved in
\* any order, have both ended, neither has raised, the catalog holds an
\* entry for each of the two names and is a whole document; and at no point
\* is a partly written file published as catalog.json.
C32_ConcurrentRegistrations ==
    /\ catalog_intact
    /\ (\A w \in Callers : callers[w].pc \in {"done", "raised"}) =>
           \A w \in Callers :
               /\ callers[w].pc = "done"
               /\ \E i \in 1..Len(catalog) : catalog[i].name = Val(callers[w].args).name

\* C33: whenever answer_synthesizer is about to run, for every capability
\* behaviour the stage returns a record whose direct_answer is the fixed
\* no-data text when execution_results is null or has no result data
\* (whatever the capability would do), the failure text when the capability
\* raises and the capability's text otherwise, with status not 'failed' and
\* execution_results unchanged; and once the stage has returned in a run,
\* the record holds a non-null direct_answer.
C33_DirectAnswerAlwaysSet ==
    /\ (pc = "graph" /\ escaped = None /\ node = "answer_synthesizer") =>
           \A resp \in AnswerResponses :
               LET out == answer_synthesizer_node(state, resp)
               IN  /\ ~out.raised
                   /\ out.state.direct_answer =
                          IF NoResultData(state)
                          THEN Some("No data was available to answer this question.")
                          ELSE IF resp.raises THEN Some("Could not synthesize answer")
                          ELSE Some("capability answer")
                   /\ out.state.status # "failed"
                   /\ out.state.execution_results = state.execution_results
    /\ \A k \in 1..Len(ran) :
           (ran[k].stage = "answer_synthesizer" /\ ~ran[k].raised) =>
               state.direct_answer # None

\* C34: whenever visualizations is about to run on a record with result
\* data and insights, for every behaviour of the capability on the calls
\* made for the first min(3, number of insights) insights: the stage
\* returns, one visualization is produced for each call that did not raise
\* (so at most min(3, number of insights)), in insight order, each call that
\* raised appends exactly one error to execution_errors after the errors
\* already there, and the chart ids are pairwise distinct.
C34_AtMostThreeCharts ==
    (pc = "graph" /\ escaped = None /\ node = "visualizations"
        /\ ~NoResultData(state) /\ state.insights # <<>>) =>
        LET calls == Min(3, Len(state.insights))
        IN  \A resps \in [1..calls -> VizResponses] :
                LET out == visualization_agent_node(state, resps)
                    charts == out.state.visualizations
                    failures == {i \in 1..calls : resps[i].raises}
                IN  /\ ~out.raised
                    /\ Len(charts) = calls - Cardinality(failures)
                    /\ Len(charts) <= 3
                    /\ \A k \in 1..Len(charts) :
                           \E i \in 1..calls :
                               charts[k].description = state.insights[i].finding
                    /\ Len(out.state.execution_errors) =
                           Len(state.execution_errors) + Cardinality(failures)
                    /\ IsPrefix(state.execution_errors, out.state.execution_errors)
                    /\ \A k, l \in 1..Len(charts) :
                           charts[k].chart_id = charts[l].chart_id => k = l

\* visualizations has returned on four insights: two charts were made and
\* the call that raised left one error
C34_Witness ==
    /\ pc = "graph"
    /\ node = "guardrails"
    /\ ran # <<>>
    /\ ran[Len(ran)].stage = "visualizations"
    /\ Len(state.insights) = 4
    /\ Len(state.visualizations) = 2
    /\ state.visualizations[1].chart_id # state.visualizations[2].chart_id
    /\ state.execution_errors # <<>>
    /\ state.execution_errors[Len(state.execution_errors)][1]
           = "Failed to generate visualization"

\* C35: whenever a stage is about to run on a record that lacks the upstream
\* field it requires (data_advisor without intent, planner without intent or
\* data sources, execution_agent without a plan, execute_queries without
\* data sources, insights or visualizations without result data, guardrails
\* without execution_results), whatever the capability would do the stage
\* returns with error_state set and status 'failed', and every field other
\* than error_state, status and execution_log is as it was.
C35_MissingPrecedentFrame ==
    (/\ pc = "graph"
     /\ escaped = None
     /\ \/ node = "data_advisor" /\ state.interpreted_intent = None
        \/ node = "planner" /\ state.interpreted_intent = None
        \/ node = "planner" /\ state.available_data_sources = None
        \/ node = "execution_agent" /\ state.analysis_plan = None
        \/ node = "execution_agent" /\ state.analysis_plan # None
               /\ Val(state.analysis_plan).steps = <<>>
        \/ node = "execute_queries" /\ state.available_data_sources = None
        \/ node = "execute_queries" /\ state.available_data_sources # None
               /\ Val(state.available_data_sources).sources = <<>>
        \/ node = "insights" /\ NoResultData(state)
        \/ node = "visualizations" /\ NoResultData(state)
        \/ node = "guardrails" /\ state.execution_results = None) =>
        \A out \in stage_outcomes(node, state) :
            /\ ~out.raised
            /\ written(state, out.state) \subseteq tracking_fields
            /\ out.state.error_state # None
            /\ out.state.status = "failed"

\* the planner has returned on a record without an intent: it left an error
\* and no plan
C35_Witness ==
    /\ pc = "graph"
    /\ node = "execution_agent"
    /\ ran # <<>>
    /\ ran[Len(ran)].stage = "planner"
    /\ ran[Len(ran)].status = "failed"
    /\ state.interpreted_intent = None
    /\ state.available_data_sources # None
    /\ state.analysis_plan = None
    /\ state.error_state = Some("Missing intent or data sources")


\* C36: when a run that did not go through capabilities_helper has ended and
\* run_analysis has handed back a record, a status of 'completed' in that
\* record implies that its execution_results and confidence_assessment are
\* both non-null, and a null confidence_assessment implies that its status
\* is 'failed'.
C36_FinalStatusAndConfidence ==
    (/\ Finished
     /\ result # None
     /\ ran # <<>>
     /\ \A k \in 1..Len(ran) : ran[k].stage # "capabilities_helper") =>
        /\ Val(result).status = "completed" =>
               /\ Val(result).execution_results # None
               /\ Val(result).confidence_assessment # None
        /\ Val(result).confidence_assessment = None =>
               Val(result).status = "failed"


\* ------------------------------------------------------------------------
\* Progress: graph.invoke runs the nodes one after another on one thread and
\* every capability call is a blocking request that returns or raises, so a
\* step that is possible is eventually taken.
\* ------------------------------------------------------------------------
FairSpec == Init /\ [][Next]_vars /\ WF_vars(Next)

\* C37: once the graph has been entered, the run eventually stands at the
\* end node with no exception raised, having invoked no stage twice: at
\* most 2 stages when capabilities_helper was among them and at most 9
\* otherwise.
C37_RunReachesEnd ==
    (pc = "graph") ~>
        /\ node = "__end__"
        /\ escaped = None
        /\ \A i, j \in 1..Len(ran) : ran[i].stage = ran[j].stage => i = j
        /\ Len(ran) <= 9
        /\ (\E k \in 1..Len(ran) : ran[k].stage = "capabilities_helper") =>
               Len(ran) <= 2

====
